---------------------------- MODULE Spec2Model ----------------------------
(***************************************************************************)
(* Model of the memojs in-memory B+ tree (btree.ts) and of its facade      *)
(* InMemoCache (inmemocache.ts).                                           *)
(*                                                                         *)
(* The JavaScript heap is modelled explicitly.  Every class of btree.ts is *)
(* a sequence of records, an object reference is an index into the         *)
(* sequence of its class and `undefined` is Null.  Every function of the   *)
(* LL and BB namespaces is an operator from a heap to a heap, translated   *)
(* statement by statement.  A thrown exception is recorded in the field    *)
(* `err` of the heap; once it is set, the remaining statements of the call *)
(* are skipped, so the heap keeps the partial mutation the throw leaves.   *)
(***************************************************************************)
EXTENDS Integers, Sequences, FiniteSets, TLC

Null == 0

\* program constant: argument of new InMemoCache(node_size)
MaxNodeSize == 4

\* model bounds
MaxKey == 5
MaxVal == 2
MaxDup == 1
FillKey == 20
MaxChurn == 2
DrainKey == 19
MaxDrain == 3
MaxNodeSizeArg == 6

Vals == 1..MaxVal
AllKeys == 1..(CHOOSE n \in { MaxKey, FillKey, DrainKey } :
                  \A m \in { MaxKey, FillKey, DrainKey } : m <= n)

\* enum SearchType
LesserThanOrEqualsTo == "LesserThanOrEqualsTo"
EqualsTo == "EqualsTo"
GreaterThanOrEqualsTo == "GreaterThanOrEqualsTo"
LesserThan == "LesserThan"
GreaterThan == "GreaterThan"

\* enum BalanceCase
DO_NOTHING == "DO_NOTHING"
REMOVE_ROOT == "REMOVE_ROOT"
SPLIT == "SPLIT"
DISTRIBUTE_RIGHT_INTO_NODE == "DISTRIBUTE_RIGHT_INTO_NODE"
DISTRIBUTE_LEFT_INTO_NODE == "DISTRIBUTE_LEFT_INTO_NODE"
MERGE_RIGHT_INTO_NODE == "MERGE_RIGHT_INTO_NODE"
MERGE_NODE_INTO_LEFT == "MERGE_NODE_INTO_LEFT"
NO_CASE == "NO_CASE"

\* enum SOURCE_IS
LEFT_SIBLING == "LEFT_SIBLING"
RIGHT_SIBLING == "RIGHT_SIBLING"

\* the heap after `new BPlusTree(max_node_size)`: no object but the tree
NewTree(max_node_size) ==
  [ lnodes |-> << >>, lists |-> << >>, cells |-> << >>, nodes |-> << >>,
    tree |-> [ root_node |-> Null, left_most_node |-> Null,
               right_most_node |-> Null, size |-> 0,
               half_capacity |-> max_node_size \div 2,
               max_node_size |-> max_node_size ],
    err |-> IF max_node_size % 2 = 1
              THEN "node_size for tree must be an even number" ELSE "",
    cause |-> "" ]

\* `const x = v;` followed by the statements that read x, written
\* Bind([x \in { v } |-> statements]): v is evaluated once
Bind(f) == f[CHOOSE x \in DOMAIN f : TRUE]

\* throw new Error(msg), or the TypeError of a property read on undefined
Throw(h, msg) == IF h.err # "" THEN h ELSE [h EXCEPT !.err = msg, !.cause = msg]
TypeError == "TypeError: cannot read properties of undefined"

\* new LinkedNode(key)
NewLinkedNode(h, key) ==
  [h EXCEPT !.lnodes = Append(@, [ key |-> key, leftSibling |-> Null,
                                     rightSibling |-> Null, duplicate_count |-> 0 ])]

\* new SortedLinkedList()
NewSortedLinkedList(h) ==
  [h EXCEPT !.lists = Append(@, [ min |-> Null, max |-> Null, count |-> 0 ])]

\* the comparator of inmemocache.ts on the keys of two cells (indexedDB.cmp)
comparator(k1, k2) == IF k1 < k2 THEN -1 ELSE IF k1 > k2 THEN 1 ELSE 0

\* key of the cell a list node holds
KeyOf(h, ln) == h.cells[h.lnodes[ln].key].key

-----------------------------------------------------------------------------
(* LL namespace *)

\* the scan loop of LL.search: the values of eq, lte, gte when it ends
RECURSIVE SearchLoop(_, _, _, _, _)
SearchLoop(h, current_node, searchKey, searchType, lte) ==
  IF current_node = Null THEN [ eq |-> Null, lte |-> lte, gte |-> Null ]
  ELSE Bind([compareResult \in { comparator(searchKey, KeyOf(h, current_node)) } |->
       IF compareResult = 0
         THEN IF searchType = GreaterThan
                THEN SearchLoop(h, h.lnodes[current_node].rightSibling, searchKey, searchType, lte)
                ELSE [ eq |-> current_node, lte |-> lte, gte |-> Null ]
       ELSE IF compareResult > 0
         THEN SearchLoop(h, h.lnodes[current_node].rightSibling, searchKey, searchType, current_node)
       ELSE [ eq |-> Null, lte |-> lte, gte |-> current_node ]])

Or(a, b) == IF a # Null THEN a ELSE b

\* LL.search with the strict "lesser than" answered as "lesser than or equal"
LL_searchLaxLesser(h, list, searchKey, searchType) ==
  IF h.lists[list].min = Null THEN Null
  ELSE Bind([s \in { SearchLoop(h, h.lists[list].min, searchKey, searchType, Null) } |->
       CASE searchType = LesserThanOrEqualsTo -> Or(s.eq, s.lte)
         [] searchType = EqualsTo -> s.eq
         [] searchType = GreaterThanOrEqualsTo -> Or(s.eq, s.gte)
         [] searchType = LesserThan -> Or(s.eq, s.lte)
         [] searchType = GreaterThan -> s.gte])

\* LL.search(list, compare, searchKey, searchType)
LL_search(h, list, searchKey, searchType) ==
  IF h.lists[list].min = Null THEN Null
  ELSE Bind([s \in { SearchLoop(h, h.lists[list].min, searchKey, searchType, Null) } |->
       CASE searchType = LesserThanOrEqualsTo -> Or(s.eq, s.lte)
         [] searchType = EqualsTo -> s.eq
         [] searchType = GreaterThanOrEqualsTo -> Or(s.eq, s.gte)
         [] searchType = LesserThan -> s.lte
         [] searchType = GreaterThan -> s.gte])

\* LL.insert(list, compare, key): key is a cell; result [h, r], r the list node
LL_insert(h0, list, key) ==
  IF h0.err # "" THEN [ h |-> h0, r |-> Null ] ELSE
  Bind([h1 \in { NewLinkedNode(h0, key) } |->
  Bind([newNode \in { Len(h1.lnodes) } |->
  Bind([min \in { h1.lists[list].min } |->
      LET bump(h) == [h EXCEPT !.lists[list].count = @ + 1]
  IN IF min = Null
       THEN [ h |-> bump([h1 EXCEPT !.lists[list].min = newNode, !.lists[list].max = newNode]),
              r |-> newNode ]
     ELSE Bind([foundNode \in { LL_search(h1, list, h1.cells[key].key, LesserThanOrEqualsTo) } |->
       IF foundNode = Null
         THEN [ h |-> bump([h1 EXCEPT !.lnodes[min].leftSibling = newNode,
                                       !.lnodes[newNode].rightSibling = min,
                                       !.lists[list].min = newNode]),
                r |-> newNode ]
       ELSE IF comparator(h1.cells[key].key, KeyOf(h1, foundNode)) = 0
         THEN [ h |-> [h1 EXCEPT !.lnodes[foundNode].duplicate_count = @ + 1,
                                  !.lists[list].count = @ - 1,
                                  !.lnodes[foundNode].key = key],
                r |-> foundNode ]
       ELSE Bind([right_sibling \in { h1.lnodes[foundNode].rightSibling } |->
            Bind([h2 \in { [h1 EXCEPT !.lnodes[foundNode].rightSibling = newNode,
                                      !.lnodes[newNode].leftSibling = foundNode,
                                      !.lnodes[newNode].rightSibling = right_sibling] } |->
            Bind([h3 \in { IF right_sibling # Null
                             THEN [h2 EXCEPT !.lnodes[right_sibling].leftSibling = newNode] ELSE h2 } |->
            Bind([h4 \in { IF foundNode = h3.lists[list].max
                             THEN [h3 EXCEPT !.lists[list].max = newNode] ELSE h3 } |->
               [ h |-> bump(h4), r |-> newNode ]])])])])])])])])

\* LL.deleteNode(list, compare, key): key is a key value (of a probe cell);
\* result [h, found, key, duplicate_count]: the fields of the detached copy
LL_deleteNode(h0, list, key) ==
  IF h0.err # "" THEN [ h |-> h0, found |-> FALSE, key |-> Null, duplicate_count |-> 0 ] ELSE
  Bind([nodeToDelete \in { LL_search(h0, list, key, EqualsTo) } |->
  IF nodeToDelete = Null
    THEN [ h |-> h0, found |-> FALSE, key |-> Null, duplicate_count |-> 0 ]
  ELSE
  Bind([dkey \in { h0.lnodes[nodeToDelete].key } |->
  Bind([ddup \in { h0.lnodes[nodeToDelete].duplicate_count } |->
  Bind([h1 \in { IF h0.lists[list].count = 1
                   THEN [h0 EXCEPT !.lists[list].min = Null, !.lists[list].max = Null]
                 ELSE
                   Bind([nr \in { h0.lnodes[nodeToDelete].rightSibling } |->
                   Bind([nl \in { h0.lnodes[nodeToDelete].leftSibling } |->
                   Bind([a \in { IF nodeToDelete = h0.lists[list].min
                                   THEN Bind([a1 \in { [h0 EXCEPT !.lists[list].min = nr] } |->
                                        Bind([a2 \in { IF nr # Null
                                                         THEN [a1 EXCEPT !.lnodes[nr].leftSibling = Null] ELSE a1 } |->
                                           [a2 EXCEPT !.lnodes[nodeToDelete].rightSibling = Null]])])
                                 ELSE IF nodeToDelete = h0.lists[list].max
                                   THEN Bind([a1 \in { [h0 EXCEPT !.lists[list].max = nl] } |->
                                        Bind([a2 \in { IF nl # Null
                                                         THEN [a1 EXCEPT !.lnodes[nl].rightSibling = Null] ELSE a1 } |->
                                           [a2 EXCEPT !.lnodes[nodeToDelete].leftSibling = Null]])])
                                 ELSE h0 } |->
                   Bind([left_sibling \in { a.lnodes[nodeToDelete].leftSibling } |->
                   Bind([right_sibling \in { a.lnodes[nodeToDelete].rightSibling } |->
                   Bind([b \in { IF left_sibling # Null
                                   THEN [a EXCEPT !.lnodes[left_sibling].rightSibling = right_sibling] ELSE a } |->
                   Bind([c \in { IF right_sibling # Null
                                   THEN [b EXCEPT !.lnodes[right_sibling].leftSibling = left_sibling] ELSE b } |->
                      [c EXCEPT !.lnodes[nodeToDelete].leftSibling = Null,
                                !.lnodes[nodeToDelete].rightSibling = Null]])])])])])])]) } |->
     [ h |-> [h1 EXCEPT !.lists[list].count = @ - (ddup + 1)],
       found |-> TRUE, key |-> dkey, duplicate_count |-> ddup ]])])])])

\* the loop of LL.splitAt: `steps` times, if (n) n = n.rightSibling
RECURSIVE Advance(_, _, _)
Advance(h, n, steps) ==
  IF steps <= 0 \/ n = Null THEN n ELSE Advance(h, h.lnodes[n].rightSibling, steps - 1)

\* the value LL.splitAt gives the max of the right portion
SplitRightMax(h, listToSplit, origMax) == h.lists[listToSplit].max

\* LL.splitAt(listToSplit, splitAfterIndex): result [h, left, right] (list references)
LL_splitAt(h0, listToSplit, splitAfterIndex) ==
  IF h0.err # "" THEN [ h |-> h0, left |-> Null, right |-> Null ] ELSE
  Bind([count \in { h0.lists[listToSplit].count } |->
  IF count < 2
    THEN [ h |-> Throw(h0, "Size of List to be split must be at least 2"),
           left |-> Null, right |-> Null ]
  ELSE IF ~(splitAfterIndex < count - 1)
    THEN IF splitAfterIndex = count - 1
           THEN Bind([h1 \in { NewSortedLinkedList(h0) } |->
                   [ h |-> h1, left |-> listToSplit, right |-> Len(h1.lists) ]])
           ELSE [ h |-> Throw(h0, "splitAtIndex must be less than listToSplit.count-1"),
                  left |-> Null, right |-> Null ]
  ELSE
  Bind([origSize \in { count } |->
  Bind([origMax \in { h0.lists[listToSplit].max } |->
  Bind([minOfRightPortion \in { Advance(h0, h0.lists[listToSplit].min, splitAfterIndex + 1) } |->
  Bind([maxOfLeftPortion \in { IF minOfRightPortion # Null
                                 THEN h0.lnodes[minOfRightPortion].leftSibling ELSE Null } |->
  Bind([h1 \in { IF maxOfLeftPortion # Null
                   THEN [h0 EXCEPT !.lnodes[maxOfLeftPortion].rightSibling = Null] ELSE h0 } |->
  Bind([h2 \in { IF minOfRightPortion # Null
                   THEN [h1 EXCEPT !.lnodes[minOfRightPortion].leftSibling = Null] ELSE h1 } |->
  Bind([h3 \in { [h2 EXCEPT !.lists[listToSplit].count = splitAfterIndex + 1,
                            !.lists[listToSplit].max = maxOfLeftPortion] } |->
  Bind([h4 \in { NewSortedLinkedList(h3) } |->
  Bind([rightPortion \in { Len(h4.lists) } |->
  Bind([h5 \in { [h4 EXCEPT !.lists[rightPortion].min = minOfRightPortion,
                            !.lists[rightPortion].max = SplitRightMax(h4, listToSplit, origMax),
                            !.lists[rightPortion].count = origSize - splitAfterIndex - 1] } |->
     [ h |-> h5, left |-> listToSplit, right |-> rightPortion ]])])])])])])])])])])])

\* LL.mergeSplittedRightIntoLeft(leftlist, rightlist)
LL_mergeSplittedRightIntoLeft(h0, leftlist, rightlist) ==
  IF h0.err # "" THEN h0 ELSE
  IF h0.lists[rightlist].count = 0 THEN h0 ELSE
  Bind([lmax \in { h0.lists[leftlist].max } |->
  Bind([rmin \in { h0.lists[rightlist].min } |->
  Bind([h1 \in { IF lmax # Null THEN [h0 EXCEPT !.lnodes[lmax].rightSibling = rmin] ELSE h0 } |->
  Bind([h2 \in { IF rmin # Null THEN [h1 EXCEPT !.lnodes[rmin].leftSibling = lmax] ELSE h1 } |->
     [h2 EXCEPT !.lists[leftlist].max = h2.lists[rightlist].max,
                !.lists[leftlist].count = @ + h2.lists[rightlist].count]])])])])

\* LL.mergeSplittedLeftIntoRight(leftlist, rightlist)
LL_mergeSplittedLeftIntoRight(h0, leftlist, rightlist) ==
  IF h0.err # "" THEN h0 ELSE
  IF h0.lists[leftlist].count = 0 THEN h0 ELSE
  Bind([lmax \in { h0.lists[leftlist].max } |->
  Bind([rmin \in { h0.lists[rightlist].min } |->
  Bind([h1 \in { IF lmax # Null THEN [h0 EXCEPT !.lnodes[lmax].rightSibling = rmin] ELSE h0 } |->
  Bind([h2 \in { IF rmin # Null THEN [h1 EXCEPT !.lnodes[rmin].leftSibling = lmax] ELSE h1 } |->
     [h2 EXCEPT !.lists[rightlist].min = h2.lists[leftlist].min,
                !.lists[rightlist].count = @ + h2.lists[leftlist].count]])])])])

\* the loop of LL.searchTillStream: the cells pushed from currentNode on
RECURSIVE TillLoop(_, _, _, _)
TillLoop(h, currentNode, endNode, yieldIndividualDuplicates) ==
  IF currentNode = Null THEN << >>
  ELSE IF comparator(KeyOf(h, endNode), KeyOf(h, currentNode)) >= 0
    THEN Bind([res \in { currentNode } |->
         Bind([countOfDuplicates \in { h.lnodes[res].duplicate_count + 1 } |->
         Bind([out \in { IF yieldIndividualDuplicates
                           THEN [i \in 1..countOfDuplicates |-> h.lnodes[res].key]
                           ELSE << h.lnodes[res].key >> } |->
            out \o TillLoop(h, h.lnodes[currentNode].rightSibling, endNode, yieldIndividualDuplicates)])])])
  ELSE << >>

\* LL.searchTillStream(list, compare, startKey, endKey, yieldIndividualDuplicates):
\* startKey, endKey are key values, Null for undefined; result: sequence of cells
LL_searchTillStream(h, list, startKey, endKey, yieldIndividualDuplicates) ==
  Bind([currentNode \in { IF startKey = Null THEN h.lists[list].min
                          ELSE LL_search(h, list, startKey, GreaterThanOrEqualsTo) } |->
  Bind([endNode \in { IF endKey = Null THEN h.lists[list].max
                      ELSE LL_search(h, list, endKey, LesserThanOrEqualsTo) } |->
     IF endNode # Null THEN TillLoop(h, currentNode, endNode, yieldIndividualDuplicates)
     ELSE << >>])])

-----------------------------------------------------------------------------
(* node and cell creation utilities *)

\* createBPlusNode(parent_tree, isLeaf, parent_node, left_most_child): result [h, r]
createBPlusNode(h0, isLeaf, parent_node, left_most_child) ==
  Bind([h1 \in { NewSortedLinkedList(h0) } |->
  Bind([h2 \in { [h1 EXCEPT !.nodes = Append(@,
                    [ parent_cell |-> Null, rightSibling |-> Null, leftSibling |-> Null,
                      parent_node |-> parent_node, cellsList |-> Len(h1.lists),
                      left_most_child |-> left_most_child, isLeaf |-> isLeaf ])] } |->
  Bind([node \in { Len(h2.nodes) } |->
  Bind([h3 \in { IF left_most_child # Null
                   THEN [h2 EXCEPT !.nodes[left_most_child].parent_node = node,
                                   !.nodes[left_most_child].parent_cell = Null]
                   ELSE h2 } |->
     [ h |-> h3, r |-> node ]])])])])

\* createBPlusCell(key, right_child_node, parentNodeForRightChildNode): result [h, r]
createBPlusCell(h0, key, right_child_node, parentNodeForRightChildNode) ==
  Bind([h1 \in { [h0 EXCEPT !.cells = Append(@,
                    [ key |-> key, value |-> Null, right_child_node |-> right_child_node ])] } |->
  Bind([cell \in { Len(h1.cells) } |->
  Bind([h2 \in { IF right_child_node # Null
                   THEN Bind([a \in { [h1 EXCEPT !.nodes[right_child_node].parent_cell = cell] } |->
                           IF a.nodes[right_child_node].parent_node # Null
                             THEN [a EXCEPT !.nodes[right_child_node].parent_node =
                                               parentNodeForRightChildNode]
                             ELSE a])
                   ELSE h1 } |->
     [ h |-> h2, r |-> cell ]])])])

\* the loop of setAsCellsList and reinforceParentShipInChildNodes
RECURSIVE ParentLoop(_, _, _)
ParentLoop(h, currentLinkedNode, node) ==
  IF currentLinkedNode = Null THEN h
  ELSE Bind([rc \in { h.cells[h.lnodes[currentLinkedNode].key].right_child_node } |->
       Bind([h1 \in { IF rc # Null THEN [h EXCEPT !.nodes[rc].parent_node = node] ELSE h } |->
          ParentLoop(h1, h1.lnodes[currentLinkedNode].rightSibling, node)])])

setAsCellsList(h0, node, newCellsList) ==
  IF h0.err # "" THEN h0 ELSE
  Bind([h1 \in { IF ~h0.nodes[node].isLeaf
                   THEN ParentLoop(h0, h0.lists[newCellsList].min, node) ELSE h0 } |->
     [h1 EXCEPT !.nodes[node].cellsList = newCellsList]])

reinforceParentShipInChildNodes(h0, node) ==
  IF h0.err # "" THEN h0 ELSE
  IF ~h0.nodes[node].isLeaf
    THEN ParentLoop(h0, h0.lists[h0.nodes[node].cellsList].min, node) ELSE h0

setAsLeftMostChildNode(h0, node, nodeToSetAsLeftMostChild) ==
  IF h0.err # "" THEN h0 ELSE
  Bind([h1 \in { [h0 EXCEPT !.nodes[node].left_most_child = nodeToSetAsLeftMostChild] } |->
     IF nodeToSetAsLeftMostChild = Null THEN Throw(h1, TypeError)
     ELSE [h1 EXCEPT !.nodes[nodeToSetAsLeftMostChild].parent_node = node,
                     !.nodes[nodeToSetAsLeftMostChild].parent_cell = Null]])

\* BPlusNode.size()
size(h, node) == h.lists[h.nodes[node].cellsList].count

-----------------------------------------------------------------------------
(* BB namespace: balancing *)

\* _determineBalancingCase with the left sibling asked before the right one
determineBalancingCaseLeftFirst(h, effectedNode) ==
  Bind([node_size \in { size(h, effectedNode) } |->
  Bind([half_capacity \in { h.tree.half_capacity } |->
  Bind([ls \in { h.nodes[effectedNode].leftSibling } |->
  Bind([rs \in { h.nodes[effectedNode].rightSibling } |->
  Bind([left_sibling_size \in { IF ls # Null THEN size(h, ls) ELSE 0 } |->
  Bind([right_sibling_size \in { IF rs # Null THEN size(h, rs) ELSE 0 } |->
     IF half_capacity <= node_size /\ node_size <= h.tree.max_node_size THEN DO_NOTHING
     ELSE IF node_size > h.tree.max_node_size THEN SPLIT
     ELSE IF left_sibling_size = 0 /\ right_sibling_size = 0
       THEN (IF node_size = 0 THEN REMOVE_ROOT ELSE DO_NOTHING)
     ELSE IF left_sibling_size > half_capacity THEN DISTRIBUTE_LEFT_INTO_NODE
     ELSE IF right_sibling_size > half_capacity THEN DISTRIBUTE_RIGHT_INTO_NODE
     ELSE IF right_sibling_size > 0 THEN MERGE_RIGHT_INTO_NODE
     ELSE IF left_sibling_size > 0 THEN MERGE_NODE_INTO_LEFT
     ELSE NO_CASE])])])])])])

\* BB._determineBalancingCase; NO_CASE stands for the throw of line 433
determineBalancingCase(h, effectedNode) ==
  Bind([node_size \in { size(h, effectedNode) } |->
  Bind([half_capacity \in { h.tree.half_capacity } |->
  Bind([ls \in { h.nodes[effectedNode].leftSibling } |->
  Bind([rs \in { h.nodes[effectedNode].rightSibling } |->
  Bind([left_sibling_size \in { IF ls # Null THEN size(h, ls) ELSE 0 } |->
  Bind([right_sibling_size \in { IF rs # Null THEN size(h, rs) ELSE 0 } |->
     IF half_capacity <= node_size /\ node_size <= h.tree.max_node_size THEN DO_NOTHING
     ELSE IF node_size > h.tree.max_node_size THEN SPLIT
     ELSE IF left_sibling_size = 0 /\ right_sibling_size = 0
       THEN (IF node_size = 0 THEN REMOVE_ROOT ELSE DO_NOTHING)
     ELSE IF right_sibling_size > half_capacity THEN DISTRIBUTE_RIGHT_INTO_NODE
     ELSE IF left_sibling_size > half_capacity THEN DISTRIBUTE_LEFT_INTO_NODE
     ELSE IF right_sibling_size > 0 THEN MERGE_RIGHT_INTO_NODE
     ELSE IF left_sibling_size > 0 THEN MERGE_NODE_INTO_LEFT
     ELSE NO_CASE])])])])])])

\* the while loop of find_effective_parent_cell
RECURSIVE AncestorCell(_, _)
AncestorCell(h, currentNode) ==
  IF currentNode = Null THEN Null
  ELSE IF h.nodes[currentNode].parent_cell # Null THEN h.nodes[currentNode].parent_cell
  ELSE AncestorCell(h, h.nodes[currentNode].parent_node)

\* BB.find_effective_parent_cell; Null stands for the throw "Not allowed condition"
find_effective_parent_cell(h, effectiveNode) ==
  IF h.nodes[effectiveNode].parent_cell # Null THEN h.nodes[effectiveNode].parent_cell
  ELSE Bind([a \in { AncestorCell(h, effectiveNode) } |->
       Bind([pn \in { h.nodes[effectiveNode].parent_node } |->
          IF a # Null THEN a
          ELSE IF pn # Null /\ h.lists[h.nodes[pn].cellsList].min # Null
            THEN h.lnodes[h.lists[h.nodes[pn].cellsList].min].key
          ELSE Null])])

\* a split that makes every new right node a leaf
SplitRightIsLeafAlways(h, effectedNode) == TRUE

\* the isLeaf BB.split gives the new right node
SplitRightIsLeaf(h, effectedNode) == h.nodes[effectedNode].isLeaf

\* BB.split with the separator of an interior node left in the left node
splitKeepSeparator(h0, effectedNode) ==
  Bind([sp \in { LL_splitAt(h0, h0.nodes[effectedNode].cellsList, h0.tree.half_capacity) } |->
  IF sp.h.err # "" THEN [ h |-> sp.h, r |-> Null ] ELSE
  Bind([newLeftList \in { sp.left } |->
  Bind([newRightList \in { sp.right } |->
  Bind([h1 \in { sp.h } |->
  Bind([lmax \in { h1.lists[newLeftList].max } |->
  Bind([cn \in { createBPlusNode(h1, SplitRightIsLeaf(h1, effectedNode), h1.nodes[effectedNode].parent_node,
                                 IF lmax # Null THEN h1.cells[h1.lnodes[lmax].key].right_child_node
                                 ELSE Null) } |->
  Bind([splitRightNode \in { cn.r } |->
  Bind([h2 \in { setAsCellsList(cn.h, splitRightNode, newRightList) } |->
  Bind([ers \in { h2.nodes[effectedNode].rightSibling } |->
  Bind([h3 \in { [h2 EXCEPT !.nodes[splitRightNode].rightSibling = ers] } |->
  Bind([h4 \in { IF ers # Null THEN [h3 EXCEPT !.nodes[ers].leftSibling = splitRightNode] ELSE h3 } |->
  Bind([h5 \in { [h4 EXCEPT !.nodes[splitRightNode].leftSibling = effectedNode,
                            !.nodes[effectedNode].rightSibling = splitRightNode] } |->
  Bind([h6 \in { IF h5.nodes[effectedNode].parent_node = Null
                   THEN Bind([nr \in { createBPlusNode(h5, FALSE, Null, effectedNode) } |->
                           [nr.h EXCEPT !.tree.root_node = nr.r]])
                   ELSE h5 } |->
  Bind([parent \in { h6.nodes[effectedNode].parent_node } |->
  Bind([h7 \in { [h6 EXCEPT !.nodes[splitRightNode].parent_node = parent] } |->
     IF lmax = Null THEN [ h |-> Throw(h7, TypeError), r |-> Null ] ELSE
     Bind([pc \in { createBPlusCell(h7, KeyOf(h7, lmax), splitRightNode, parent) } |->
     Bind([ins \in { LL_insert(pc.h, pc.h.nodes[parent].cellsList, pc.r) } |->
     Bind([h8 \in { ins.h } |->
     Bind([h9 \in { IF h8.nodes[effectedNode].isLeaf
                      THEN (IF effectedNode = h8.tree.right_most_node
                              THEN [h8 EXCEPT !.tree.right_most_node = splitRightNode] ELSE h8)
                      ELSE h8 } |->
        [ h |-> h9, r |-> h9.nodes[effectedNode].parent_node ]])])])])])])])])])])])])])])])])])])])

\* BB.split(tree, effectedNode, customCompare): result [h, r], r the parent node
split(h0, effectedNode) ==
  Bind([sp \in { LL_splitAt(h0, h0.nodes[effectedNode].cellsList, h0.tree.half_capacity) } |->
  IF sp.h.err # "" THEN [ h |-> sp.h, r |-> Null ] ELSE
  Bind([newLeftList \in { sp.left } |->
  Bind([newRightList \in { sp.right } |->
  Bind([h1 \in { sp.h } |->
  Bind([lmax \in { h1.lists[newLeftList].max } |->
  Bind([cn \in { createBPlusNode(h1, SplitRightIsLeaf(h1, effectedNode), h1.nodes[effectedNode].parent_node,
                                 IF lmax # Null THEN h1.cells[h1.lnodes[lmax].key].right_child_node
                                 ELSE Null) } |->
  Bind([splitRightNode \in { cn.r } |->
  Bind([h2 \in { setAsCellsList(cn.h, splitRightNode, newRightList) } |->
  Bind([ers \in { h2.nodes[effectedNode].rightSibling } |->
  Bind([h3 \in { [h2 EXCEPT !.nodes[splitRightNode].rightSibling = ers] } |->
  Bind([h4 \in { IF ers # Null THEN [h3 EXCEPT !.nodes[ers].leftSibling = splitRightNode] ELSE h3 } |->
  Bind([h5 \in { [h4 EXCEPT !.nodes[splitRightNode].leftSibling = effectedNode,
                            !.nodes[effectedNode].rightSibling = splitRightNode] } |->
  Bind([h6 \in { IF h5.nodes[effectedNode].parent_node = Null
                   THEN Bind([nr \in { createBPlusNode(h5, FALSE, Null, effectedNode) } |->
                           [nr.h EXCEPT !.tree.root_node = nr.r]])
                   ELSE h5 } |->
  Bind([parent \in { h6.nodes[effectedNode].parent_node } |->
  Bind([h7 \in { [h6 EXCEPT !.nodes[splitRightNode].parent_node = parent] } |->
     IF lmax = Null THEN [ h |-> Throw(h7, TypeError), r |-> Null ] ELSE
     Bind([pc \in { createBPlusCell(h7, KeyOf(h7, lmax), splitRightNode, parent) } |->
     Bind([ins \in { LL_insert(pc.h, pc.h.nodes[parent].cellsList, pc.r) } |->
     Bind([h8 \in { ins.h } |->
     Bind([h9 \in { IF h8.nodes[effectedNode].isLeaf
                      THEN (IF effectedNode = h8.tree.right_most_node
                              THEN [h8 EXCEPT !.tree.right_most_node = splitRightNode] ELSE h8)
                      ELSE LL_deleteNode(h8, newLeftList, KeyOf(h8, h8.lists[newLeftList].max)).h } |->
        [ h |-> h9, r |-> h9.nodes[effectedNode].parent_node ]])])])])])])])])])])])])])])])])])])])

\* BB.merge(tree, source, target, customCompare): result [h, r], r the parent of source
merge(h0, source, target) ==
  Bind([effective_parent_cell \in { find_effective_parent_cell(h0, source) } |->
  IF effective_parent_cell = Null
    THEN [ h |-> Throw(h0, "Not allowed condition"), r |-> Null ] ELSE
  Bind([h1 \in { IF ~h0.nodes[source].isLeaf
                   THEN Bind([fc \in { createBPlusCell(h0, h0.cells[effective_parent_cell].key,
                                                       h0.nodes[source].left_most_child, target) } |->
                           LL_insert(fc.h, fc.h.nodes[target].cellsList, fc.r).h])
                   ELSE h0 } |->
  Bind([h2 \in { LL_mergeSplittedRightIntoLeft(h1, h1.nodes[target].cellsList,
                                               h1.nodes[source].cellsList) } |->
  Bind([h3 \in { reinforceParentShipInChildNodes(h2, target) } |->
  Bind([srs \in { h3.nodes[source].rightSibling } |->
  Bind([h4 \in { [h3 EXCEPT !.nodes[target].rightSibling = srs] } |->
  Bind([h5 \in { IF srs # Null THEN [h4 EXCEPT !.nodes[srs].leftSibling = target] ELSE h4 } |->
  Bind([spn \in { h5.nodes[source].parent_node } |->
  Bind([h6 \in { IF h5.nodes[source].parent_cell = Null
                   THEN IF spn = Null \/ h5.lists[h5.nodes[spn].cellsList].min = Null
                          THEN Throw(h5, TypeError)
                          ELSE Bind([replacement_key \in { KeyOf(h5, h5.lists[h5.nodes[spn].cellsList].min) } |->
                               Bind([deletedN \in { LL_deleteNode(h5, h5.nodes[spn].cellsList, replacement_key) } |->
                               Bind([a \in { IF deletedN.found
                                                /\ deletedN.h.cells[deletedN.key].right_child_node # Null
                                               THEN setAsLeftMostChildNode(deletedN.h, spn,
                                                      deletedN.h.cells[deletedN.key].right_child_node)
                                               ELSE deletedN.h } |->
                                  [a EXCEPT !.cells[effective_parent_cell].key = replacement_key]])])])
                   ELSE IF spn = Null THEN Throw(h5, TypeError)
                        ELSE LL_deleteNode(h5, h5.nodes[spn].cellsList,
                                           h5.cells[h5.nodes[source].parent_cell].key).h } |->
     IF h6.err # "" THEN [ h |-> h6, r |-> Null ] ELSE
     [ h |-> IF source = h6.tree.right_most_node
               THEN [h6 EXCEPT !.tree.right_most_node = target] ELSE h6,
       r |-> h6.nodes[source].parent_node ]])])])])])])])])])

\* the index BB.distribute splits the source at
DistributeSplitIndex(h, source, source_is) ==
  Bind([count \in { h.lists[h.nodes[source].cellsList].count } |->
  IF ~h.nodes[source].isLeaf
    THEN (IF source_is = RIGHT_SIBLING THEN count - h.tree.half_capacity - 1
          ELSE count - h.tree.half_capacity + 1)
    ELSE (IF source_is = RIGHT_SIBLING THEN count - h.tree.half_capacity - 1
          ELSE h.tree.half_capacity - 1)])

\* BB.distribute(tree, source, target, source_is, customCompare)
distribute(h0, source, target, source_is) ==
  Bind([effectiveNode \in { IF source_is = LEFT_SIBLING THEN target ELSE source } |->
  Bind([effective_parent_cell \in { find_effective_parent_cell(h0, effectiveNode) } |->

  IF effective_parent_cell = Null THEN Throw(h0, "Not allowed condition") ELSE
  Bind([isLeaf \in { h0.nodes[source].isLeaf } |->
      \* 2. first cell for target
  Bind([h1 \in { IF ~isLeaf
                   THEN Bind([right_child_node \in { IF source_is = LEFT_SIBLING
                                                       THEN h0.nodes[target].left_most_child
                                                       ELSE h0.nodes[source].left_most_child } |->
                        Bind([fc \in { createBPlusCell(h0, h0.cells[effective_parent_cell].key,
                                                       right_child_node, target) } |->
                           LL_insert(fc.h, fc.h.nodes[target].cellsList, fc.r).h])])
                   ELSE h0 } |->
      \* 3. split cells from source
  Bind([sp \in { LL_splitAt(h1, h1.nodes[source].cellsList, DistributeSplitIndex(h1, source, source_is)) } |->

  IF sp.h.err # "" THEN sp.h ELSE
  Bind([h2 \in { IF source_is = RIGHT_SIBLING THEN setAsCellsList(sp.h, source, sp.right) ELSE sp.h } |->
  Bind([boundaryList \in { IF source_is = LEFT_SIBLING THEN h2.nodes[source].cellsList ELSE sp.left } |->
  Bind([boundary \in { h2.lists[boundaryList].max } |->

  IF boundary = Null THEN Throw(h2, TypeError) ELSE
  Bind([max_cell \in { h2.lnodes[boundary].key } |->
  Bind([effective_LMC \in { h2.cells[max_cell].right_child_node } |->
  Bind([replacement_key \in { h2.cells[max_cell].key } |->
  Bind([h3 \in { IF ~isLeaf THEN LL_deleteNode(h2, boundaryList, replacement_key).h ELSE h2 } |->
      \* 5. merge split cells
  Bind([h4 \in { IF source_is = LEFT_SIBLING
                   THEN (IF h3.lists[sp.right].count > 0
                           THEN reinforceParentShipInChildNodes(
                                  LL_mergeSplittedLeftIntoRight(h3, sp.right, h3.nodes[target].cellsList),
                                  target)
                           ELSE h3)
                   ELSE (IF h3.lists[sp.left].count > 0
                           THEN reinforceParentShipInChildNodes(
                                  LL_mergeSplittedRightIntoLeft(h3, h3.nodes[target].cellsList, sp.left),
                                  target)
                           ELSE h3) } |->
      \* 6. not leaf: the right child of the boundary cell becomes a left-most child
  Bind([h5 \in { IF ~isLeaf
                   THEN (IF source_is = LEFT_SIBLING
                           THEN setAsLeftMostChildNode(h4, target, effective_LMC)
                           ELSE setAsLeftMostChildNode(h4, source, effective_LMC))
                   ELSE h4 } |->

  IF h5.err # "" THEN h5 ELSE
  \* 7. resetting the key of effective_parent_cell
  IF source_is = RIGHT_SIBLING /\ isLeaf
    THEN Bind([tmax \in { h5.lists[h5.nodes[target].cellsList].max } |->
            IF tmax = Null THEN Throw(h5, TypeError)
            ELSE [h5 EXCEPT !.cells[effective_parent_cell].key = KeyOf(h5, tmax)]])
    ELSE [h5 EXCEPT !.cells[effective_parent_cell].key = replacement_key]])])])])])])])])])])])])])])

\* the body of the try block of BB.balance
RECURSIVE balanceTry(_, _)
balanceTry(h0, effectedNode) ==
  IF h0.err # "" THEN h0 ELSE
  Bind([balanceCase \in { determineBalancingCase(h0, effectedNode) } |->
  CASE balanceCase = DO_NOTHING -> h0
    [] balanceCase = NO_CASE -> Throw(h0, "NO BALANCE CASE found for effectedNode")
    [] balanceCase = REMOVE_ROOT ->
         IF h0.tree.root_node = Null THEN Throw(h0, TypeError)
         ELSE Bind([newRoot \in { h0.nodes[h0.tree.root_node].left_most_child } |->
              Bind([h1 \in { [h0 EXCEPT !.tree.root_node = newRoot] } |->
                 IF newRoot # Null THEN [h1 EXCEPT !.nodes[newRoot].parent_node = Null] ELSE h1])])
    [] balanceCase = SPLIT ->
         Bind([s \in { split(h0, effectedNode) } |->
            IF s.h.err # "" THEN s.h ELSE balanceTry(s.h, s.r)])
    [] balanceCase = DISTRIBUTE_RIGHT_INTO_NODE ->
         distribute(h0, h0.nodes[effectedNode].rightSibling, effectedNode, RIGHT_SIBLING)
    [] balanceCase = DISTRIBUTE_LEFT_INTO_NODE ->
         distribute(h0, h0.nodes[effectedNode].leftSibling, effectedNode, LEFT_SIBLING)
    [] balanceCase = MERGE_RIGHT_INTO_NODE ->
         Bind([m \in { merge(h0, h0.nodes[effectedNode].rightSibling, effectedNode) } |->
            IF m.h.err # "" \/ m.r = Null THEN m.h ELSE balanceTry(m.h, m.r)])
    [] balanceCase = MERGE_NODE_INTO_LEFT ->
         Bind([m \in { merge(h0, effectedNode, h0.nodes[effectedNode].leftSibling) } |->
            IF m.h.err # "" \/ m.r = Null THEN m.h ELSE balanceTry(m.h, m.r)])])

\* BB.balance: the catch clause rethrows every error as "Failed while balancing"
balance(h0, effectedNode) ==
  IF h0.err # "" THEN h0 ELSE
  Bind([h1 \in { balanceTry(h0, effectedNode) } |->
     IF h1.err # "" THEN [h1 EXCEPT !.err = "Failed while balancing"] ELSE h1])

-----------------------------------------------------------------------------
(* BB namespace: search, insert, delete *)

\* the while loop of BB.searchForLeafNode
RECURSIVE LeafLoop(_, _, _)
LeafLoop(h, bpNode, key) ==
  IF bpNode = Null THEN Null
  ELSE IF h.nodes[bpNode].isLeaf THEN bpNode
  ELSE Bind([foundCell \in { LL_search(h, h.nodes[bpNode].cellsList, key, LesserThanOrEqualsTo) } |->
       IF foundCell = Null THEN LeafLoop(h, h.nodes[bpNode].left_most_child, key)
       ELSE IF comparator(key, KeyOf(h, foundCell)) = 0
         THEN (IF h.lnodes[foundCell].leftSibling # Null
                 THEN LeafLoop(h, h.cells[h.lnodes[h.lnodes[foundCell].leftSibling].key].right_child_node, key)
                 ELSE LeafLoop(h, h.nodes[bpNode].left_most_child, key))
       ELSE LeafLoop(h, h.cells[h.lnodes[foundCell].key].right_child_node, key)])

searchForLeafNode(h, key) ==
  IF h.tree.root_node = Null THEN Null ELSE LeafLoop(h, h.tree.root_node, key)

\* BB.searchForValue: the value, Null for undefined
searchForValue(h, searchKey, searchType) ==
  Bind([leafNode \in { searchForLeafNode(h, searchKey) } |->
  IF leafNode = Null THEN Null
  ELSE Bind([foundNode \in { LL_search(h, h.nodes[leafNode].cellsList, searchKey, searchType) } |->
          IF foundNode # Null THEN h.cells[h.lnodes[foundNode].key].value ELSE Null])])

\* undefined as a result of searchForKV: a pair of no key and no value
NoKV == [ key |-> Null, value |-> Null ]

\* the while loop of BB.searchForKV
RECURSIVE KVLoop(_, _, _, _)
KVLoop(h, leafNode, searchKey, searchType) ==
  IF leafNode = Null THEN NoKV
  ELSE Bind([foundLinkedNode \in { LL_search(h, h.nodes[leafNode].cellsList, searchKey, searchType) } |->
       IF foundLinkedNode # Null
         THEN [ key |-> h.cells[h.lnodes[foundLinkedNode].key].key,
                value |-> h.cells[h.lnodes[foundLinkedNode].key].value ]
       ELSE IF searchType = LesserThan
         THEN KVLoop(h, h.nodes[leafNode].leftSibling, searchKey, searchType)
       ELSE IF searchType = GreaterThan
         THEN KVLoop(h, h.nodes[leafNode].rightSibling, searchKey, searchType)
       ELSE NoKV])

\* BB.searchForKV: the pair [key, value], NoKV for undefined
searchForKV(h, searchKey, searchType) ==
  KVLoop(h, searchForLeafNode(h, searchKey), searchKey, searchType)

-----------------------------------------------------------------------------
(* BB namespace: find with a query comparator *)

\* A query comparator of a caller: a predicate on keys written as a
\* comparator.  q.match are the keys of the predicate, q.on tells which
\* arguments it looks at, q.sign is what it returns when it is not 0.
queryCompare(q, k1, k2) ==
  IF CASE q.on = "first" -> k1 \in q.match
       [] q.on = "second" -> k2 \in q.match
       [] q.on = "both" -> k1 \in q.match /\ k2 \in q.match
    THEN 0 ELSE q.sign

\* the scan loop of LL.search, compare being a query comparator
RECURSIVE QSearchLoop(_, _, _, _, _, _)
QSearchLoop(h, q, current_node, searchKey, searchType, lte) ==
  IF current_node = Null THEN [ eq |-> Null, lte |-> lte, gte |-> Null ]
  ELSE Bind([compareResult \in { queryCompare(q, searchKey, KeyOf(h, current_node)) } |->
       IF compareResult = 0
         THEN IF searchType = GreaterThan
                THEN QSearchLoop(h, q, h.lnodes[current_node].rightSibling, searchKey, searchType, lte)
                ELSE [ eq |-> current_node, lte |-> lte, gte |-> Null ]
       ELSE IF compareResult > 0
         THEN QSearchLoop(h, q, h.lnodes[current_node].rightSibling, searchKey, searchType, current_node)
       ELSE [ eq |-> Null, lte |-> lte, gte |-> current_node ]])

\* LL.search(list, compare, searchKey, searchType), compare being a query comparator
LL_searchQ(h, list, q, searchKey, searchType) ==
  IF h.lists[list].min = Null THEN Null
  ELSE Bind([s \in { QSearchLoop(h, q, h.lists[list].min, searchKey, searchType, Null) } |->
       CASE searchType = LesserThanOrEqualsTo -> Or(s.eq, s.lte)
         [] searchType = EqualsTo -> s.eq
         [] searchType = GreaterThanOrEqualsTo -> Or(s.eq, s.gte)
         [] searchType = LesserThan -> s.lte
         [] searchType = GreaterThan -> s.gte])

\* the while loop of BB.searchForLeafNode, queryCompare given
RECURSIVE QLeafLoop(_, _, _, _)
QLeafLoop(h, q, bpNode, key) ==
  IF bpNode = Null THEN Null
  ELSE IF h.nodes[bpNode].isLeaf THEN bpNode
  ELSE Bind([foundCell \in { LL_searchQ(h, h.nodes[bpNode].cellsList, q, key, LesserThanOrEqualsTo) } |->
       IF foundCell = Null THEN QLeafLoop(h, q, h.nodes[bpNode].left_most_child, key)
       ELSE IF queryCompare(q, key, KeyOf(h, foundCell)) = 0
         THEN (IF h.lnodes[foundCell].leftSibling # Null
                 THEN QLeafLoop(h, q, h.cells[h.lnodes[h.lnodes[foundCell].leftSibling].key].right_child_node, key)
                 ELSE QLeafLoop(h, q, h.nodes[bpNode].left_most_child, key))
       ELSE QLeafLoop(h, q, h.cells[h.lnodes[foundCell].key].right_child_node, key)])

\* BB.searchForLeafNode(tree, compare, key, queryCompare)
searchForLeafNodeQ(h, key, q) ==
  IF h.tree.root_node = Null THEN Null ELSE QLeafLoop(h, q, h.tree.root_node, key)

\* the while loop of LL.find: the cells of the list the query comparator accepts
RECURSIVE FindLoop(_, _, _)
FindLoop(h, q, cn) ==
  IF cn = Null THEN << >>
  ELSE (IF queryCompare(q, KeyOf(h, cn), KeyOf(h, cn)) = 0 THEN << h.lnodes[cn].key >> ELSE << >>)
         \o FindLoop(h, q, h.lnodes[cn].rightSibling)

\* LL.find(list, queryCompare)
LL_find(h, list, q) == FindLoop(h, q, h.lists[list].min)

\* the for loop of find and findV over the matches of one leaf:
\* st = [bookmark_key, result]; findV (kind "V") pushes values and breaks
\* out of this loop when result.length = limit
RECURSIVE FindFor(_, _, _, _, _, _)
FindFor(h, q, avlStr, st, kind, limit) ==
  IF avlStr = << >> THEN st
  ELSE IF st.bookmark_key # Null
    THEN FindFor(h, q, Tail(avlStr), [st EXCEPT !.bookmark_key = Null], kind, limit)
  ELSE IF queryCompare(q, h.cells[Head(avlStr)].key, h.cells[Head(avlStr)].key) = 0
    THEN Bind([st1 \in { [st EXCEPT !.result = Append(@, IF kind = "V" THEN h.cells[Head(avlStr)].value
                                                          ELSE h.cells[Head(avlStr)].key)] } |->
           IF kind = "V" /\ Len(st1.result) = limit THEN st1
           ELSE FindFor(h, q, Tail(avlStr), st1, kind, limit)])
  ELSE FindFor(h, q, Tail(avlStr), st, kind, limit)

\* the while loop of find and findV over the leaves
RECURSIVE FindWhile(_, _, _, _, _, _)
FindWhile(h, q, found_leaf_node, st, kind, limit) ==
  IF found_leaf_node = Null THEN st.result
  ELSE FindWhile(h, q, h.nodes[found_leaf_node].rightSibling,
                 FindFor(h, q, LL_find(h, h.nodes[found_leaf_node].cellsList, q), st, kind, limit),
                 kind, limit)

\* the leaf find and findV start at
FindStart(h, q, bookmark_key) ==
  IF bookmark_key # Null THEN searchForLeafNodeQ(h, bookmark_key, q)
  ELSE IF h.tree.left_most_node # Null /\ size(h, h.tree.left_most_node) > 0
    THEN searchForLeafNodeQ(h, KeyOf(h, h.lists[h.nodes[h.tree.left_most_node].cellsList].min), q)
  ELSE Null

\* BB.find(tree, compare, queryComparator, bookmark_key): the keys found
find(h, q, bookmark_key) ==
  FindWhile(h, q, FindStart(h, q, bookmark_key),
            [ bookmark_key |-> bookmark_key, result |-> << >> ], "K", 0)

\* BB.findV(tree, compare, queryComparator, bookmark_key, false, limit): the values found
findV(h, q, bookmark_key, limit) ==
  FindWhile(h, q, FindStart(h, q, bookmark_key),
            [ bookmark_key |-> bookmark_key, result |-> << >> ], "V", limit)

-----------------------------------------------------------------------------
\* BB.insert(tree, compare, key, value)
insert(h0, key, value) ==
  IF h0.tree.root_node = Null
    THEN Bind([cn \in { createBPlusNode(h0, TRUE, Null, Null) } |->
         Bind([h1 \in { [cn.h EXCEPT !.tree.root_node = cn.r, !.tree.left_most_node = cn.r,
                                     !.tree.right_most_node = cn.r, !.tree.size = @ + 1] } |->
         Bind([c \in { createBPlusCell(h1, key, Null, cn.r) } |->
         Bind([j \in { LL_insert(c.h, c.h.nodes[cn.r].cellsList, c.r) } |->
            [j.h EXCEPT !.cells[j.h.lnodes[j.r].key].value = value]])])])])
  ELSE Bind([leafNode \in { searchForLeafNode(h0, key) } |->
    IF leafNode = Null THEN h0
    ELSE Bind([c \in { createBPlusCell(h0, key, Null, leafNode) } |->
         Bind([insertedNode \in { LL_insert(c.h, c.h.nodes[leafNode].cellsList, c.r) } |->
         Bind([h1 \in { [insertedNode.h EXCEPT !.cells[insertedNode.h.lnodes[insertedNode.r].key].value = value] } |->
         Bind([h2 \in { balance(h1, leafNode) } |->
            IF h2.err # "" THEN h2 ELSE [h2 EXCEPT !.tree.size = @ + 1]])])])])])

\* BB.deleteKey(tree, compare, key): result [h, r], r the key or Null
deleteKey(h0, key) ==
  IF h0.tree.root_node = Null
    THEN [ h |-> [h0 EXCEPT !.tree.size = 0], r |-> Null ]
  ELSE Bind([leafNode \in { searchForLeafNode(h0, key) } |->
    IF leafNode = Null THEN [ h |-> Throw(h0, TypeError), r |-> Null ]
    ELSE Bind([deletedNode \in { LL_deleteNode(h0, h0.nodes[leafNode].cellsList, key) } |->
      IF deletedNode.found
        THEN Bind([h1 \in { [deletedNode.h EXCEPT !.tree.size = @ - (1 + deletedNode.duplicate_count)] } |->
                [ h |-> balance(h1, leafNode), r |-> h1.cells[deletedNode.key].key ]])
        ELSE [ h |-> deletedNode.h, r |-> Null ]])])

\* BB.deleteKeyReturnValue(tree, compare, key): result [h, r], r the value or Null
deleteKeyReturnValue(h0, key) ==
  IF h0.tree.root_node = Null
    THEN [ h |-> [h0 EXCEPT !.tree.size = 0], r |-> Null ]
  ELSE Bind([leafNode \in { searchForLeafNode(h0, key) } |->
    IF leafNode = Null THEN [ h |-> Throw(h0, TypeError), r |-> Null ]
    ELSE Bind([deletedNode \in { LL_deleteNode(h0, h0.nodes[leafNode].cellsList, key) } |->
      IF deletedNode.found
        THEN Bind([h1 \in { [deletedNode.h EXCEPT !.tree.size = @ - (1 + deletedNode.duplicate_count)] } |->
                [ h |-> balance(h1, leafNode), r |-> h1.cells[deletedNode.key].value ]])
        ELSE [ h |-> deletedNode.h, r |-> Null ]])])

-----------------------------------------------------------------------------
(* BB namespace: range *)

\* the for loop over the cells of one leaf: st = [skip, count, result]
RECURSIVE Paginate(_, _, _, _, _)
Paginate(h, st1, st, offset, limit) ==
  IF st1 = << >> THEN st
  ELSE IF st.skip >= offset
    THEN (IF limit # -1 /\ st.count = limit THEN st
          ELSE Paginate(h, Tail(st1),
                        [st EXCEPT !.count = @ + 1,
                                   !.result = Append(@, h.cells[Head(st1)].key)],
                        offset, limit))
  ELSE Paginate(h, Tail(st1), [st EXCEPT !.skip = @ + 1], offset, limit)

\* the while loop of searchForRangeWithPagination; it never ends once
\* currentNode is undefined and endNode is not
RECURSIVE RangeLoop(_, _, _, _, _, _, _, _)
RangeLoop(h, currentNode, endNode, st, offset, limit, startKey, endKey) ==
  IF currentNode = endNode THEN [ node |-> currentNode, st |-> st, diverges |-> FALSE ]
  ELSE IF currentNode = Null THEN [ node |-> currentNode, st |-> st, diverges |-> TRUE ]
  ELSE RangeLoop(h, h.nodes[currentNode].rightSibling, endNode,
                 Paginate(h, LL_searchTillStream(h, h.nodes[currentNode].cellsList,
                                                 startKey, endKey, FALSE),
                          st, offset, limit),
                 offset, limit, startKey, endKey)

\* BB.searchForRangeWithPagination(tree, compare, offset, limit, startKey, endKey):
\* result [result, diverges]; Null stands for an undefined startKey or endKey
searchForRangeWithPagination(h, offset, limit, startKey, endKey) ==
  Bind([startNode \in { IF startKey = Null THEN h.tree.left_most_node
                        ELSE searchForLeafNode(h, startKey) } |->
  Bind([endNode \in { IF endKey = Null THEN h.tree.right_most_node
                      ELSE searchForLeafNode(h, endKey) } |->
  Bind([st0 \in { [ skip |-> 0, count |-> 0, result |-> << >> ] } |->
  Bind([w \in { IF startNode # endNode
                  THEN RangeLoop(h, startNode, endNode, st0, offset, limit, startKey, endKey)
                  ELSE [ node |-> startNode, st |-> st0, diverges |-> FALSE ] } |->
     IF w.diverges THEN [ result |-> << >>, diverges |-> TRUE ]
     ELSE IF w.node # Null /\ w.node = endNode
       THEN [ result |-> Paginate(h, LL_searchTillStream(h, h.nodes[w.node].cellsList,
                                                          startKey, endKey, FALSE),
                                  w.st, offset, limit).result,
              diverges |-> FALSE ]
     ELSE [ result |-> w.st.result, diverges |-> FALSE ]])])])])

\* BB.getSize(tree)
getSize(h) == h.tree.size

\* the while loop of getMiddleKey
RECURSIVE MiddleLoop(_, _, _, _)
MiddleLoop(h, found_leaf_node, c, hs) ==
  IF c < hs /\ found_leaf_node # Null
    THEN (IF c + size(h, found_leaf_node) < hs
            THEN MiddleLoop(h, h.nodes[found_leaf_node].rightSibling,
                            c + size(h, found_leaf_node), hs)
            ELSE h.cells[h.lnodes[h.lists[h.nodes[found_leaf_node].cellsList].min].key].key)
    ELSE Null

\* BB.getMiddleKey(tree): the key, Null for undefined
getMiddleKey(h) ==
  IF h.tree.left_most_node = Null THEN Null
  ELSE MiddleLoop(h, h.tree.left_most_node, 0, getSize(h) \div 2)

\* what the loops push for a cell n1: n1.key (searchForRangeWithPagination),
\* n1.value (searchForRangeWithPaginationV) or new BB_KV_P(n1.key, n1.value)
Emit(h, n1, kind) ==
  CASE kind = "K" -> h.cells[n1].key
    [] kind = "V" -> h.cells[n1].value
    [] kind = "KVP" -> [ key |-> h.cells[n1].key, value |-> h.cells[n1].value ]

\* the for loop over the cells of one leaf in the three range entry points
RECURSIVE PaginateAs(_, _, _, _, _, _)
PaginateAs(h, st1, st, offset, limit, kind) ==
  IF st1 = << >> THEN st
  ELSE IF st.skip >= offset
    THEN (IF limit # -1 /\ st.count = limit THEN st
          ELSE PaginateAs(h, Tail(st1),
                          [st EXCEPT !.count = @ + 1,
                                     !.result = Append(@, Emit(h, Head(st1), kind))],
                          offset, limit, kind))
  ELSE PaginateAs(h, Tail(st1), [st EXCEPT !.skip = @ + 1], offset, limit, kind)

\* the while loop of the three range entry points: with currentNode undefined
\* and endNode defined the body does nothing and the condition stays true
RECURSIVE RangeLoopAs(_, _, _, _, _, _, _, _, _)
RangeLoopAs(h, currentNode, endNode, st, offset, limit, startKey, endKey, kind) ==
  IF currentNode = endNode THEN [ node |-> currentNode, st |-> st, diverges |-> FALSE ]
  ELSE IF currentNode = Null THEN [ node |-> currentNode, st |-> st, diverges |-> TRUE ]
  ELSE RangeLoopAs(h, h.nodes[currentNode].rightSibling, endNode,
                   PaginateAs(h, LL_searchTillStream(h, h.nodes[currentNode].cellsList,
                                                     startKey, endKey, FALSE),
                              st, offset, limit, kind),
                   offset, limit, startKey, endKey, kind)

\* the common body of the three range entry points: result [result, diverges]
RangeAs(h, offset, limit, startKey, endKey, kind) ==
  Bind([startNode \in { IF startKey = Null THEN h.tree.left_most_node
                        ELSE searchForLeafNode(h, startKey) } |->
  Bind([endNode \in { IF endKey = Null THEN h.tree.right_most_node
                      ELSE searchForLeafNode(h, endKey) } |->
  Bind([st0 \in { [ skip |-> 0, count |-> 0, result |-> << >> ] } |->
  Bind([w \in { IF startNode # endNode
                  THEN RangeLoopAs(h, startNode, endNode, st0, offset, limit,
                                   startKey, endKey, kind)
                  ELSE [ node |-> startNode, st |-> st0, diverges |-> FALSE ] } |->
     IF w.diverges THEN [ result |-> << >>, diverges |-> TRUE ]
     ELSE IF w.node # Null /\ w.node = endNode
       THEN [ result |-> PaginateAs(h, LL_searchTillStream(h, h.nodes[w.node].cellsList,
                                                            startKey, endKey, FALSE),
                                    w.st, offset, limit, kind).result,
              diverges |-> FALSE ]
     ELSE [ result |-> w.st.result, diverges |-> FALSE ]])])])])

\* BB.searchForRangeWithPaginationV(tree, compare, offset, limit, startKey, endKey)
searchForRangeWithPaginationV(h, offset, limit, startKey, endKey) ==
  RangeAs(h, offset, limit, startKey, endKey, "V")

\* BB.searchForRangeWithPaginationKVP(tree, compare, offset, limit, startKey, endKey)
searchForRangeWithPaginationKVP(h, offset, limit, startKey, endKey) ==
  RangeAs(h, offset, limit, startKey, endKey, "KVP")

-----------------------------------------------------------------------------
(* The heap up to the names of its objects: the objects reachable from the  *)
(* tree, numbered in the order a breadth-first walk from the tree meets     *)
(* them.  Objects no reference leads to are dropped, as the garbage         *)
(* collector drops them.                                                    *)

\* the references an object holds, as <<class, index>>: six, the fields a
\* class does not have being no reference
Refs(h, x) ==
  CASE x[1] = "node" ->
         << <<"cell", h.nodes[x[2]].parent_cell>>, <<"node", h.nodes[x[2]].rightSibling>>,
            <<"node", h.nodes[x[2]].leftSibling>>, <<"node", h.nodes[x[2]].parent_node>>,
            <<"list", h.nodes[x[2]].cellsList>>, <<"node", h.nodes[x[2]].left_most_child>> >>
    [] x[1] = "list" ->
         << <<"lnode", h.lists[x[2]].min>>, <<"lnode", h.lists[x[2]].max>>,
            <<"lnode", Null>>, <<"lnode", Null>>, <<"lnode", Null>>, <<"lnode", Null>> >>
    [] x[1] = "lnode" ->
         << <<"cell", h.lnodes[x[2]].key>>, <<"lnode", h.lnodes[x[2]].leftSibling>>,
            <<"lnode", h.lnodes[x[2]].rightSibling>>,
            <<"lnode", Null>>, <<"lnode", Null>>, <<"lnode", Null>> >>
    [] x[1] = "cell" ->
         << <<"node", h.cells[x[2]].right_child_node>>,
            <<"node", Null>>, <<"node", Null>>, <<"node", Null>>, <<"node", Null>>,
            <<"node", Null>> >>

\* the references the objects of `level` hold, object after object
LevelRefs(h, level) ==
  Bind([own \in { [i \in 1..Len(level) |-> Refs(h, level[i])] \o << >> } |->
    [k \in 1..(6 * Len(level)) |-> own[((k - 1) \div 6) + 1][((k - 1) % 6) + 1]] \o << >>])

\* of refs, in their order, those that lead to an object ord does not list,
\* each once
Fresh(refs, ord) ==
  Bind([seen \in { { ord[j] : j \in 1..Len(ord) } } |->
  Bind([new \in { SelectSeq([i \in 1..Len(refs) |-> i],
                            LAMBDA i : /\ refs[i][2] # Null
                                       /\ refs[i] \notin seen
                                       /\ \A j \in 1..(i - 1) : refs[j] # refs[i]) } |->
    [k \in 1..Len(new) |-> refs[new[k]]] \o << >>])])

\* the objects a breadth-first walk meets, in its order: ord, then level,
\* then what the objects of level lead to
RECURSIVE Reach(_, _, _)
Reach(h, level, ord) ==
  IF Len(level) = 0 THEN ord
  ELSE Reach(h, Fresh(LevelRefs(h, level), ord \o level), ord \o level)

\* old index of every kept object of one class, in the new order
Kept(ord, class) ==
  Bind([s \in { SelectSeq(ord, LAMBDA x : x[1] = class) } |-> [i \in 1..Len(s) |-> s[i][2]]])

\* new index of every object of one class, n objects of which kept are
\* kept: old index -> new index (0: dropped)
Renumber(kept, n) ==
  [i \in 0..n |-> IF \E k \in 1..Len(kept) : kept[k] = i
                    THEN CHOOSE k \in 1..Len(kept) : kept[k] = i
                    ELSE 0]

Canon(h) ==
  Bind([ord \in { Reach(h, Fresh(<< <<"node", h.tree.root_node>>,
                                    <<"node", h.tree.left_most_node>>,
                                    <<"node", h.tree.right_most_node>> >>, << >>),
                         << >>) } |->
  Bind([kn \in { Kept(ord, "node") } |->
  Bind([ks \in { Kept(ord, "list") } |->
  Bind([kl \in { Kept(ord, "lnode") } |->
  Bind([kc \in { Kept(ord, "cell") } |->
  Bind([fn \in { Renumber(kn, Len(h.nodes)) } |->
  Bind([fs \in { Renumber(ks, Len(h.lists)) } |->
  Bind([fl \in { Renumber(kl, Len(h.lnodes)) } |->
  Bind([fc \in { Renumber(kc, Len(h.cells)) } |->
     [ h EXCEPT
       !.nodes = [i \in 1..Len(kn) |->
                    Bind([n \in { h.nodes[kn[i]] } |->
                    [ parent_cell |-> fc[n.parent_cell], rightSibling |-> fn[n.rightSibling],
                      leftSibling |-> fn[n.leftSibling], parent_node |-> fn[n.parent_node],
                      cellsList |-> fs[n.cellsList], left_most_child |-> fn[n.left_most_child],
                      isLeaf |-> n.isLeaf ]])],
       !.lists = [i \in 1..Len(ks) |->
                    Bind([l \in { h.lists[ks[i]] } |->
                    [ min |-> fl[l.min], max |-> fl[l.max], count |-> l.count ]])],
       !.lnodes = [i \in 1..Len(kl) |->
                    Bind([l \in { h.lnodes[kl[i]] } |->
                    [ key |-> fc[l.key], leftSibling |-> fl[l.leftSibling],
                      rightSibling |-> fl[l.rightSibling],
                      duplicate_count |-> l.duplicate_count ]])],
       !.cells = [i \in 1..Len(kc) |->
                    Bind([c \in { h.cells[kc[i]] } |->
                    [ key |-> c.key, value |-> c.value,
                      right_child_node |-> fn[c.right_child_node] ]])],
       !.tree.root_node = fn[h.tree.root_node],
       !.tree.left_most_node = fn[h.tree.left_most_node],
       !.tree.right_most_node = fn[h.tree.right_most_node] ]])])])])])])])])])

-----------------------------------------------------------------------------
(* The facade InMemoCache and its callers *)

VARIABLES
  heap,      \* the object graph of the InMemoCache
  stored,    \* per key: the number of put calls since the last delete of the key
  latest,    \* per key: the value of the most recent put since its last delete, or Null
  workload,  \* the kind of call sequence the caller makes
  hi,        \* filling workloads: the number of keys of the fill put so far
  churn      \* filling workloads: the number of calls made after the fill

vars == << heap, stored, latest, workload, hi, churn >>

Workloads == { "free", "roundTrip", "fillUp", "fillDown", "drain" }

\* the number of keys of a fill, and its i-th key
FillLen(w) == IF w = "drain" THEN DrainKey ELSE FillKey
FillKeyAt(w, i) == IF w = "fillUp" THEN i ELSE FillLen(w) + 1 - i

\* new InMemoCache(node_size)
Init ==
  /\ heap = NewTree(MaxNodeSize)
  /\ stored = [k \in AllKeys |-> 0]
  /\ latest = [k \in AllKeys |-> Null]
  /\ workload \in Workloads
  /\ hi = 0
  /\ churn = 0

\* InMemoCache.put(key, value)
put(h, key, value) == Canon(insert(h, key, value))

\* InMemoCache.get(key)
get(h, key) == searchForValue(h, key, EqualsTo)

\* InMemoCache.delete(key): result [h, r]
delete(h, key) ==
  Bind([d \in { deleteKeyReturnValue(h, key) } |->    [ h |-> Canon(d.h), r |-> d.r ]])

\* The calls a workload makes.  "free": puts and deletes of the keys 1..MaxKey
\* in any order, a key being put again only after its delete.  "fillUp" and
\* "fillDown": the keys 1..FillKey are put in ascending (descending) order;
\* the fill stops at any point and up to MaxChurn more calls follow: deletes of
\* stored keys and puts of keys of the fill, stored (a duplicate) or not.
\* "drain": the keys DrainKey..1 are put in descending order, then up to
\* MaxDrain stored keys are deleted.
\* "roundTrip": distinct keys of 1..MaxKey are put in any order, then stored
\* keys are deleted in any order.
IsFill(k) == churn = 0 /\ hi < FillLen(workload) /\ k = FillKeyAt(workload, hi + 1)

CanPut(k, v) ==
  /\ heap.err = ""
  /\ IF workload = "free"
       THEN k \in 1..MaxKey /\ v \in Vals /\ stored[k] = 0
     ELSE IF workload = "roundTrip"
       THEN k \in 1..MaxKey /\ v = 1 /\ stored[k] = 0 /\ churn = 0
     ELSE IF workload = "drain"
       THEN v = 1 /\ IsFill(k)
       ELSE /\ v = 1
            /\ \/ IsFill(k)
               \/ /\ churn < MaxChurn
                  /\ stored[k] <= MaxDup
                  /\ \E i \in 1..hi : k = FillKeyAt(workload, i)

CanDelete(k) ==
  /\ heap.err = ""
  /\ IF workload = "free"
       THEN k \in 1..MaxKey
     ELSE IF workload = "roundTrip"
       THEN stored[k] > 0
     ELSE IF workload = "drain"
       THEN hi = DrainKey /\ churn < MaxDrain /\ stored[k] > 0
       ELSE churn < MaxChurn /\ stored[k] > 0

Put(k, v) ==
  /\ CanPut(k, v)
  /\ heap' = put(heap, k, v)
  /\ stored' = [stored EXCEPT ![k] = @ + 1]
  /\ latest' = [latest EXCEPT ![k] = v]
  /\ IF workload \in { "free", "roundTrip" } THEN UNCHANGED << hi, churn >>
     ELSE IF IsFill(k)
       THEN hi' = hi + 1 /\ UNCHANGED churn
       ELSE churn' = churn + 1 /\ UNCHANGED hi
  /\ UNCHANGED workload

Delete(k) ==
  /\ CanDelete(k)
  /\ heap' = delete(heap, k).h
  /\ stored' = [stored EXCEPT ![k] = 0]
  /\ latest' = [latest EXCEPT ![k] = Null]
  /\ IF workload = "free" THEN UNCHANGED churn
     ELSE IF workload = "roundTrip" THEN churn' = 1
     ELSE churn' = churn + 1
  /\ UNCHANGED << workload, hi >>

Next ==
  \/ \E k \in AllKeys, v \in Vals : Put(k, v)
  \/ \E k \in AllKeys : Delete(k)

Spec == Init /\ [][Next]_vars

\* new InMemoCache(node_size) for any node_size of 0..MaxNodeSizeArg, then
\* the calls of the "roundTrip" workload
InitNew ==
  /\ \E node_size \in 0..MaxNodeSizeArg : heap = NewTree(node_size)
  /\ stored = [k \in AllKeys |-> 0]
  /\ latest = [k \in AllKeys |-> Null]
  /\ workload = "roundTrip"
  /\ hi = 0
  /\ churn = 0

SpecNew == InitNew /\ [][Next]_vars

-----------------------------------------------------------------------------
(* The tree as the verifier of the specification reads it *)

\* the list nodes of a cell list, read from its min by right links
RECURSIVE Chain(_, _)
Chain(h, ln) == IF ln = Null THEN << >> ELSE << ln >> \o Chain(h, h.lnodes[ln].rightSibling)

ListNodes(h, list) == Chain(h, h.lists[list].min)

\* the keys of a cell list
ListKeys(h, list) == LET c == ListNodes(h, list) IN [i \in 1..Len(c) |-> KeyOf(h, c[i])]

\* the children a node references: left_most_child, then every cell's right child
Children(h, n) ==
  LET c == ListNodes(h, h.nodes[n].cellsList)
      rc == [i \in 1..Len(c) |-> h.cells[h.lnodes[c[i]].key].right_child_node]
  IN SelectSeq(<< h.nodes[n].left_most_child >> \o rc, LAMBDA x : x # Null)

\* the nodes of the subtree of n with their depth, n being at depth d
RECURSIVE Subtree(_, _, _)
Subtree(h, n, d) ==
  IF n = Null THEN { }
  ELSE IF h.nodes[n].isLeaf THEN { << n, d >> }
  ELSE LET ch == Children(h, n)
       IN { << n, d >> } \cup UNION { Subtree(h, ch[i], d + 1) : i \in 1..Len(ch) }

TreeNodes(h) == Subtree(h, h.tree.root_node, 0)

Leaves(h) == { x \in TreeNodes(h) : h.nodes[x[1]].isLeaf }

\* the keys stored in the leaves of the subtree of n
SubtreeKeys(h, n) ==
  UNION { { k : k \in { ListKeys(h, h.nodes[x[1]].cellsList)[i] :
                         i \in 1..Len(ListKeys(h, h.nodes[x[1]].cellsList)) } } :
          x \in { y \in Subtree(h, n, 0) : h.nodes[y[1]].isLeaf } }

RECURSIVE SumSeq(_)
SumSeq(s) == IF s = << >> THEN 0 ELSE Head(s) + SumSeq(Tail(s))

\* cells.count plus the duplicate counts of a leaf
LeafWeight(h, n) ==
  LET c == ListNodes(h, h.nodes[n].cellsList)
  IN h.lists[h.nodes[n].cellsList].count + SumSeq([i \in 1..Len(c) |-> h.lnodes[c[i]].duplicate_count])

RECURSIVE SumLeaves(_, _)
SumLeaves(h, S) ==
  IF S = { } THEN 0
  ELSE LET x == CHOOSE y \in S : TRUE IN LeafWeight(h, x[1]) + SumLeaves(h, S \ { x })

\* the keys met walking the leaf chain from left_most_node to right_most_node
RECURSIVE LeafChainKeys(_, _)
LeafChainKeys(h, n) ==
  IF n = Null THEN << >>
  ELSE ListKeys(h, h.nodes[n].cellsList)
       \o (IF n = h.tree.right_most_node THEN << >>
           ELSE LeafChainKeys(h, h.nodes[n].rightSibling))

\* the keys the calls so far leave stored, ascending, every copy counted
RECURSIVE StoredKeys(_, _)
StoredKeys(lo, up) ==
  IF lo > up THEN << >> ELSE [i \in 1..stored[lo] |-> lo] \o StoredKeys(lo + 1, up)

\* a page of a sequence: `offset` skipped, at most `limit` kept (-1: all)
Page(s, offset, limit) ==
  LET from == offset + 1
      to == IF limit = -1 \/ offset + limit > Len(s) THEN Len(s) ELSE offset + limit
  IN SubSeq(s, from, to)

Returned == heap.err = ""

MaxOffset == 1
MaxLimit == 2

-----------------------------------------------------------------------------
(* Claims *)

\* C1: after any sequence of put and delete calls, get(k) returns the value of
\* the most recent put(k, v) if k was put and not deleted since, else nothing.
MapSemantics ==
  Returned => \A k \in AllKeys : get(heap, k) = latest[k]

\* C2: range with no start, no end, offset 0 and limit -1 returns exactly the
\* sorted multiset of the keys currently stored.
RangeUnbounded ==
  Returned =>
    searchForRangeWithPagination(heap, 0, -1, Null, Null)
      = [ result |-> StoredKeys(1, Len(stored)), diverges |-> FALSE ]

\* C3: for start <= end, range(start, end, offset, limit) returns the stored
\* keys k with start <= k <= end in ascending order, the first `offset`
\* skipped and at most `limit` of the rest emitted.
RangeBounded ==
  Returned =>
    \A start \in AllKeys, end \in AllKeys, offset \in 0..MaxOffset, limit \in -1..MaxLimit :
      start <= end =>
        searchForRangeWithPagination(heap, offset, limit, start, end)
          = [ result |-> Page(StoredKeys(start, end), offset, limit), diverges |-> FALSE ]

\* C4 (P6): after every put and delete, tree.size equals the sum over all
\* leaves of cells.count plus the duplicate counts of the leaf's list nodes.
SizeInvariant ==
  Returned => heap.tree.size = SumLeaves(heap, Leaves(heap))

\* C5 (P4): the keys met along the leaf chain from leftmost_leaf to
\* rightmost_leaf are non-decreasing and as many as tree.size.
LeafChainInvariant ==
  Returned =>
    LET ks == LeafChainKeys(heap, heap.tree.left_most_node)
    IN /\ \A i \in 1..(Len(ks) - 1) : ks[i] <= ks[i + 1]
       /\ Len(ks) = heap.tree.size

\* C6 (P2): every non-root node holds at least half_capacity and at most
\* max_node_size cells.
Occupancy ==
  Returned =>
    \A x \in TreeNodes(heap) :
      x[1] # heap.tree.root_node =>
        LET cellsHeld == Len(ListNodes(heap, heap.nodes[x[1]].cellsList))
        IN heap.tree.half_capacity <= cellsHeld /\ cellsHeld <= heap.tree.max_node_size

\* C7 (P1): every leaf reachable from the root is at the same depth.
EqualDepth ==
  Returned => Cardinality({ x[2] : x \in Leaves(heap) }) <= 1

\* a tree of three levels exists after a call that followed the fill
EqualDepthWitness ==
  /\ Returned /\ churn > 0
  /\ \E x \in Leaves(heap) : x[2] = 2

\* C8 (P3): for every interior cell c, every key in the subtree of
\* c.right_child is > c.key and every key of the subtree immediately left of c
\* is <= c.key.
SeparatorDiscipline ==
  Returned =>
    \A x \in TreeNodes(heap) :
      ~heap.nodes[x[1]].isLeaf =>
        LET c == ListNodes(heap, heap.nodes[x[1]].cellsList)
            right(i) == heap.cells[heap.lnodes[c[i]].key].right_child_node
            left(i) == IF i = 1 THEN heap.nodes[x[1]].left_most_child ELSE right(i - 1)
        IN \A i \in 1..Len(c) :
             /\ \A k \in SubtreeKeys(heap, right(i)) : k > KeyOf(heap, c[i])
             /\ \A k \in SubtreeKeys(heap, left(i)) : k <= KeyOf(heap, c[i])

\* C9 (P5): for every child C referenced by a node N, C.parent is N, and
\* C.parent_cell is the cell of N whose right child is C, or absent if C is
\* N's left-most child.
ParentConsistency ==
  Returned =>
    \A x \in TreeNodes(heap) :
      ~heap.nodes[x[1]].isLeaf =>
        LET n == x[1]
            lmc == heap.nodes[n].left_most_child
            c == ListNodes(heap, heap.nodes[n].cellsList)
        IN /\ lmc # Null =>
                heap.nodes[lmc].parent_node = n /\ heap.nodes[lmc].parent_cell = Null
           /\ \A i \in 1..Len(c) :
                LET cell == heap.lnodes[c[i]].key
                    rc == heap.cells[cell].right_child_node
                IN rc # Null =>
                     heap.nodes[rc].parent_node = n /\ heap.nodes[rc].parent_cell = cell

\* the tree holds nothing
EmptyTree ==
  /\ heap.tree.size = 0
  /\ \/ heap.tree.root_node = Null
     \/ /\ heap.nodes[heap.tree.root_node].isLeaf
        /\ ListNodes(heap, heap.nodes[heap.tree.root_node].cellsList) = << >>
  /\ \A k \in AllKeys : get(heap, k) = Null
  /\ searchForRangeWithPagination(heap, 0, -1, Null, Null)
       = [ result |-> << >>, diverges |-> FALSE ]

\* C10: inserting N distinct keys in any order and then deleting all of them
\* in any order yields an empty tree.
RoundTrip ==
  (workload = "roundTrip" /\ churn > 0 /\ \A k \in AllKeys : stored[k] = 0)
    => (Returned /\ EmptyTree)

\* C11: putting the same key twice into an empty tree yields size 2 and one
\* leaf list node for the key with duplicate_count 1, in a leaf that is
\* reachable from the root.
DuplicatePut ==
  \A k \in AllKeys :
    (workload \in { "fillUp", "fillDown" } /\ hi = 1 /\ churn = 1 /\ stored[k] = 2) =>
      /\ Returned
      /\ heap.tree.size = 2
      /\ \E x \in Leaves(heap) :
           LET c == ListNodes(heap, heap.nodes[x[1]].cellsList)
           IN /\ Len(c) = 1
              /\ KeyOf(heap, c[1]) = k
              /\ heap.lnodes[c[1]].duplicate_count = 1

\* C12: one delete(k) removes every copy of a key that was put d+1 times:
\* size decreases by d+1 and get(k) afterwards returns nothing.
DeleteAllCopies ==
  [][\A k \in AllKeys :
       (Delete(k) /\ stored[k] > 0 /\ heap'.err = "") =>
         /\ heap'.tree.size = heap.tree.size - stored[k]
         /\ get(heap', k) = Null]_vars

\* C13: constructing a tree fails with a precondition error whenever
\* max_node_size is odd or smaller than 4, and succeeds for every even
\* max_node_size >= 4 with half_capacity = max_node_size / 2.
ConstructorPrecondition ==
  (churn = 0 /\ \A k \in AllKeys : stored[k] = 0) =>
    LET n == heap.tree.max_node_size
    IN /\ heap.err # "" <=> (n % 2 = 1 \/ n < 4)
       /\ heap.err = "" => heap.tree.half_capacity = n \div 2

\* C14: every range call (keys, values and key-value entry points) ends,
\* on every tree put and delete reach and for every start, end, offset and
\* limit, a start key in a leaf to the right of the end key's leaf included.
RangeTerminates ==
  Returned =>
    \A start \in {Null} \cup 1..MaxKey, end \in {Null} \cup 1..MaxKey,
       offset \in 0..MaxOffset, limit \in -1..MaxLimit :
      /\ ~searchForRangeWithPagination(heap, offset, limit, start, end).diverges
      /\ ~searchForRangeWithPaginationV(heap, offset, limit, start, end).diverges
      /\ ~searchForRangeWithPaginationKVP(heap, offset, limit, start, end).diverges

\* C15: middle_key returns nothing on an empty tree and otherwise the key at
\* 0-based position floor(size / 2) of the ascending sequence of stored keys.
MiddleKey ==
  Returned =>
    LET ks == StoredKeys(1, Len(stored))
    IN getMiddleKey(heap) = IF ks = << >> THEN Null ELSE ks[(Len(ks) \div 2) + 1]

\* C16: get_kv(k, LT) returns the greatest stored key strictly less than k
\* with its value, get_kv(k, GT) the smallest stored key strictly greater
\* than k with its value, and nothing when there is no such key.
NeighbourKV ==
  Returned =>
    \A k \in AllKeys :
      LET below == { j \in AllKeys : j < k /\ stored[j] > 0 }
          above == { j \in AllKeys : j > k /\ stored[j] > 0 }
          pair(j) == [ key |-> j, value |-> latest[j] ]
      IN /\ searchForKV(heap, k, LesserThan)
              = IF below = {} THEN NoKV
                ELSE pair(CHOOSE j \in below : \A i \in below : i <= j)
         /\ searchForKV(heap, k, GreaterThan)
              = IF above = {} THEN NoKV
                ELSE pair(CHOOSE j \in above : \A i \in above : j <= i)

\* the query comparators the claims about find are checked with
Queries ==
  [ match : SUBSET (1..MaxKey), on : { "first", "second", "both" }, sign : { -1, 1 } ]

\* the stored keys from lo on that a query comparator accepts, ascending
Matching(q, lo) ==
  SelectSeq([k \in 1..Len(stored) |-> k],
            LAMBDA k : k >= lo /\ stored[k] > 0 /\ k \in q.match)

\* C17: find without a bookmark returns every stored key k with
\* query_cmp(k, k) = 0, in ascending order, and no other key, whatever
\* non-zero value the query comparator returns on keys that do not match.
FindAll ==
  Returned => \A q \in Queries : find(heap, q, Null) = Matching(q, 1)

\* C18: find with a bookmark key b that is stored and accepted by the query
\* comparator returns exactly the accepted stored keys strictly greater than
\* b, in ascending order.
FindAfterBookmark ==
  Returned =>
    \A q \in Queries, b \in 1..MaxKey :
      (stored[b] > 0 /\ b \in q.match) => find(heap, q, b) = Matching(q, b + 1)

\* C19: findV with a limit L > 0 returns at most L values: the values of the
\* first L accepted keys in ascending order.
FindLimit ==
  Returned =>
    \A q \in Queries, L \in 1..MaxLimit :
      LET m == Matching(q, 1)
      IN findV(heap, q, Null, L)
           = [i \in 1..(IF Len(m) < L THEN Len(m) ELSE L) |-> latest[m[i]]]

\* C20: delete(k) for a key that is not stored returns nothing, raises no
\* error and leaves the tree as it was: size, root and leaf contents, and so
\* the result of every later get and range (also when the root is absent).
DeleteMissing ==
  Returned =>
    \A k \in AllKeys :
      stored[k] = 0 =>
        /\ deleteKey(heap, k) = [ h |-> heap, r |-> Null ]
        /\ delete(heap, k) = [ h |-> heap, r |-> Null ]

\* C21: with max_node_size 4, the puts of 10, 20, 30, 40, 50 in that order
\* split the root when its cell count reaches 5: before the fifth put the
\* root is a leaf of four cells, after it the root is an interior node with
\* the single cell key 20, left leaf [10, 20], right leaf [30, 40, 50], size 5.
RootSplitExample ==
  heap = NewTree(MaxNodeSize) =>
    \A v \in Vals :
      LET t4 == put(put(put(put(heap, 10, v), 20, v), 30, v), 40, v)
          t5 == put(t4, 50, v)
          r == t5.tree.root_node
          ch == Children(t5, r)
      IN /\ t4.err = "" /\ t5.err = ""
         /\ t4.nodes[t4.tree.root_node].isLeaf
         /\ ListKeys(t4, t4.nodes[t4.tree.root_node].cellsList) = << 10, 20, 30, 40 >>
         /\ ~t5.nodes[r].isLeaf
         /\ ListKeys(t5, t5.nodes[r].cellsList) = << 20 >>
         /\ Len(ch) = 2
         /\ t5.nodes[ch[1]].isLeaf /\ t5.nodes[ch[2]].isLeaf
         /\ ListKeys(t5, t5.nodes[ch[1]].cellsList) = << 10, 20 >>
         /\ ListKeys(t5, t5.nodes[ch[2]].cellsList) = << 30, 40, 50 >>
         /\ t5.tree.size = 5

\* the list nodes met following right links from ln, at most `fuel` of them
RECURSIVE Walk(_, _, _)
Walk(h, ln, fuel) ==
  IF ln = Null \/ fuel = 0 THEN << >>
  ELSE << ln >> \o Walk(h, h.lnodes[ln].rightSibling, fuel - 1)

\* a cell list is a well-formed doubly-linked list
WellFormedList(h, list) ==
  LET c == Walk(h, h.lists[list].min, Len(h.lnodes) + 1)
  IN /\ Len(c) <= Len(h.lnodes)
     /\ Len(c) = h.lists[list].count
     /\ \A i \in 1..(Len(c) - 1) : KeyOf(h, c[i]) < KeyOf(h, c[i + 1])
     /\ h.lists[list].max = IF c = << >> THEN Null ELSE c[Len(c)]
     /\ \A i \in 1..Len(c) : h.lnodes[c[i]].leftSibling = IF i = 1 THEN Null ELSE c[i - 1]

\* the calls made so far put no key that was stored
DistinctKeys == workload \in { "free", "roundTrip", "drain" } \/ churn = 0

\* C22: after puts and deletes of distinct keys every node's cell list is a
\* well-formed doubly-linked list: the right links from min visit exactly
\* count list nodes in strictly increasing key order and end at max, the left
\* links are their inverse, and no list node is met from two cell lists.
ListWellFormed ==
  (Returned /\ DistinctKeys) =>
    LET lists == { heap.nodes[x[1]].cellsList : x \in TreeNodes(heap) }
        members(l) == { Walk(heap, heap.lists[l].min, Len(heap.lnodes) + 1)[i] :
                          i \in 1..Len(Walk(heap, heap.lists[l].min, Len(heap.lnodes) + 1)) }
    IN /\ \A l \in lists : WellFormedList(heap, l)
       /\ \A l1, l2 \in lists : l1 # l2 => members(l1) \cap members(l2) = { }

\* C23: split_at(list, i) on a list of count >= 2 with 0 <= i < count - 1
\* returns the original list holding exactly the first i + 1 nodes and a new
\* list holding exactly the other count - i - 1 nodes, each with its own min,
\* max and count and no link between the two; split_at(list, count - 1)
\* returns the original list and an empty right list.
SplitAtShape ==
  Returned =>
    \A x \in TreeNodes(heap) :
      LET l == heap.nodes[x[1]].cellsList
          c == Walk(heap, heap.lists[l].min, Len(heap.lnodes) + 1)
      IN (WellFormedList(heap, l) /\ heap.lists[l].count >= 2) =>
           \A i \in 0..(heap.lists[l].count - 1) :
             LET s == LL_splitAt(heap, l, i)
             IN /\ s.h.err = ""
                /\ s.left = l
                /\ s.right # l
                /\ Walk(s.h, s.h.lists[s.left].min, Len(heap.lnodes) + 1) = SubSeq(c, 1, i + 1)
                /\ Walk(s.h, s.h.lists[s.right].min, Len(heap.lnodes) + 1) = SubSeq(c, i + 2, Len(c))
                /\ WellFormedList(s.h, s.left)
                /\ WellFormedList(s.h, s.right)

\* the keys of the list nodes met following right links from the list's min
WalkKeys(h, list) ==
  LET c == Walk(h, h.lists[list].min, Len(h.lnodes) + 1)
  IN [i \in 1..Len(c) |-> KeyOf(h, c[i])]

\* LL.insert of a key the list does not hold: one more node, at its sorted position
InsertsNew(h, l, k) ==
  LET c == createBPlusCell(h, k, Null, Null)
      r == LL_insert(c.h, l, c.r)
      before == WalkKeys(h, l)
  IN /\ WalkKeys(r.h, l) = SelectSeq(before, LAMBDA j : j < k) \o << k >>
                             \o SelectSeq(before, LAMBDA j : j > k)
     /\ r.h.lists[l].count = h.lists[l].count + 1
     /\ r.h.lnodes[r.r].key = c.r
     /\ WellFormedList(r.h, l)

\* LL.insert of a key the list holds: no node more, the node's duplicate_count
\* one more, its key replaced, count as before
InsertsDuplicate(h, l, k) ==
  LET c == createBPlusCell(h, k, Null, Null)
      r == LL_insert(c.h, l, c.r)
      nodes == Walk(h, h.lists[l].min, Len(h.lnodes) + 1)
  IN /\ Walk(r.h, r.h.lists[l].min, Len(h.lnodes) + 1) = nodes
     /\ \E i \in 1..Len(nodes) :
          /\ nodes[i] = r.r
          /\ KeyOf(h, nodes[i]) = k
          /\ r.h.lnodes[r.r].duplicate_count = h.lnodes[r.r].duplicate_count + 1
     /\ r.h.lnodes[r.r].key = c.r
     /\ r.h.lists[l].count = h.lists[l].count

\* C24: LL.insert of a key not yet in the list adds one node at its sorted
\* position and increments count by one; LL.insert of a key equal to an
\* existing node's key adds no node, increments that node's duplicate_count,
\* replaces the node's stored key with the new one and leaves count unchanged.
ListInsert ==
  Returned =>
    \A x \in Leaves(heap), k \in AllKeys :
      LET l == heap.nodes[x[1]].cellsList
      IN WellFormedList(heap, l) =>
           IF \E i \in 1..Len(WalkKeys(heap, l)) : WalkKeys(heap, l)[i] = k
             THEN InsertsDuplicate(heap, l, k)
             ELSE InsertsNew(heap, l, k)

\* the heap and the leaf BB.insert calls balance with: [h, node], node Null
\* when insert does not call balance
InsertBeforeBalance(h0, key, value) ==
  IF h0.tree.root_node = Null \/ searchForLeafNode(h0, key) = Null
    THEN [ h |-> h0, node |-> Null ]
  ELSE LET leafNode == searchForLeafNode(h0, key)
           c == createBPlusCell(h0, key, Null, leafNode)
           insertedNode == LL_insert(c.h, c.h.nodes[leafNode].cellsList, c.r)
       IN [ h |-> [insertedNode.h EXCEPT !.cells[insertedNode.h.lnodes[insertedNode.r].key].value = value],
            node |-> leafNode ]

\* the heap and the leaf BB.deleteKeyReturnValue calls balance with: [h, node],
\* node Null when it does not call balance
DeleteBeforeBalance(h0, key) ==
  IF h0.tree.root_node = Null \/ searchForLeafNode(h0, key) = Null
    THEN [ h |-> h0, node |-> Null ]
  ELSE LET leafNode == searchForLeafNode(h0, key)
           deletedNode == LL_deleteNode(h0, h0.nodes[leafNode].cellsList, key)
       IN IF deletedNode.found
            THEN [ h |-> [deletedNode.h EXCEPT !.tree.size = @ - (1 + deletedNode.duplicate_count)],
                   node |-> leafNode ]
            ELSE [ h |-> h0, node |-> Null ]

\* the balance case the claim states for a node
ClaimedCase(h, n) ==
  LET sz == size(h, n)
      half == h.tree.half_capacity
      ls == h.nodes[n].leftSibling
      rs == h.nodes[n].rightSibling
  IN IF half <= sz /\ sz <= h.tree.max_node_size THEN DO_NOTHING
     ELSE IF sz > h.tree.max_node_size THEN SPLIT
     ELSE IF n = h.tree.root_node /\ ls = Null /\ rs = Null
       THEN (IF sz = 0 THEN REMOVE_ROOT ELSE DO_NOTHING)
     ELSE IF rs # Null /\ size(h, rs) > half THEN DISTRIBUTE_RIGHT_INTO_NODE
     ELSE IF ls # Null /\ size(h, ls) > half THEN DISTRIBUTE_LEFT_INTO_NODE
     ELSE IF rs # Null THEN MERGE_RIGHT_INTO_NODE
     ELSE MERGE_NODE_INTO_LEFT

\* every balance call of one put or delete, from balance(h, n) on, selects
\* the claimed case
RECURSIVE CasesAsClaimed(_, _)
CasesAsClaimed(h, n) ==
  IF n = Null \/ h.err # "" THEN TRUE
  ELSE LET c == determineBalancingCase(h, n)
       IN /\ c = ClaimedCase(h, n)
          /\ CASE c = SPLIT ->
                    LET s == split(h, n) IN CasesAsClaimed(s.h, s.r)
               [] c = MERGE_RIGHT_INTO_NODE ->
                    LET m == merge(h, h.nodes[n].rightSibling, n) IN CasesAsClaimed(m.h, m.r)
               [] c = MERGE_NODE_INTO_LEFT ->
                    LET m == merge(h, n, h.nodes[n].leftSibling) IN CasesAsClaimed(m.h, m.r)
               [] OTHER -> TRUE

RECURSIVE CasesSelected(_, _)
CasesSelected(h, n) ==
  IF n = Null \/ h.err # "" THEN { }
  ELSE LET c == determineBalancingCase(h, n)
       IN { c } \cup
          CASE c = SPLIT ->
                 LET s == split(h, n) IN CasesSelected(s.h, s.r)
            [] c = MERGE_RIGHT_INTO_NODE ->
                 LET m == merge(h, h.nodes[n].rightSibling, n) IN CasesSelected(m.h, m.r)
            [] c = MERGE_NODE_INTO_LEFT ->
                 LET m == merge(h, n, h.nodes[n].leftSibling) IN CasesSelected(m.h, m.r)
            [] OTHER -> { }

Cells(h, n) == Walk(h, h.lists[h.nodes[n].cellsList].min, Len(h.lnodes) + 1)

\* BB.split of node n, holding max_node_size + 1 cells, has the claimed shape
SplitAsClaimed(h, n) ==
  LET before == Cells(h, n)
      half == h.tree.half_capacity
      wasRoot == h.nodes[n].parent_node = Null
      s == split(h, n)
      right == s.h.nodes[n].rightSibling
      parent == s.h.nodes[n].parent_node
      sep == before[half + 1]
      parentBefore == IF wasRoot THEN << >> ELSE Cells(h, h.nodes[n].parent_node)
      gained == { Cells(s.h, parent)[i] : i \in 1..Len(Cells(s.h, parent)) }
                  \ { parentBefore[i] : i \in 1..Len(parentBefore) }
  IN /\ s.h.err = ""
     /\ s.r = parent
     /\ right > Len(h.nodes)
     /\ s.h.nodes[right].isLeaf = h.nodes[n].isLeaf
     /\ s.h.nodes[right].leftSibling = n
     /\ s.h.nodes[right].rightSibling = h.nodes[n].rightSibling
     /\ s.h.nodes[right].parent_node = parent
     /\ Cells(s.h, right) = SubSeq(before, half + 2, Len(before))
     /\ IF wasRoot
          THEN /\ parent > Len(h.nodes)
               /\ ~s.h.nodes[parent].isLeaf
               /\ s.h.tree.root_node = parent
               /\ s.h.nodes[parent].left_most_child = n
          ELSE parent = h.nodes[n].parent_node
     /\ Len(Cells(s.h, parent)) = Len(parentBefore) + 1
     /\ \E g \in gained :
          /\ gained = { g }
          /\ KeyOf(s.h, g) = KeyOf(h, sep)
          /\ s.h.cells[s.h.lnodes[g].key].right_child_node = right
     /\ IF h.nodes[n].isLeaf
          THEN Cells(s.h, n) = SubSeq(before, 1, half + 1)
          ELSE /\ Cells(s.h, n) = SubSeq(before, 1, half)
               /\ s.h.nodes[right].left_most_child = h.cells[h.lnodes[sep].key].right_child_node

\* every split of one put or delete, from balance(h, n) on, of a node of
\* max_node_size + 1 cells has the claimed shape
RECURSIVE SplitsAsClaimed(_, _)
SplitsAsClaimed(h, n) ==
  IF n = Null \/ h.err # "" THEN TRUE
  ELSE LET c == determineBalancingCase(h, n)
       IN CASE c = SPLIT ->
                 /\ (Len(Cells(h, n)) = h.tree.max_node_size + 1 /\ size(h, n) = h.tree.max_node_size + 1)
                      => SplitAsClaimed(h, n)
                 /\ LET s == split(h, n) IN SplitsAsClaimed(s.h, s.r)
            [] c = MERGE_RIGHT_INTO_NODE ->
                 LET m == merge(h, h.nodes[n].rightSibling, n) IN SplitsAsClaimed(m.h, m.r)
            [] c = MERGE_NODE_INTO_LEFT ->
                 LET m == merge(h, n, h.nodes[n].leftSibling) IN SplitsAsClaimed(m.h, m.r)
            [] OTHER -> TRUE

RECURSIVE SplitsA(_, _, _)
SplitsA(h, n, isLeaf) ==
  IF n = Null \/ h.err # "" THEN FALSE
  ELSE LET c == determineBalancingCase(h, n)
       IN CASE c = SPLIT ->
                 \/ /\ Len(Cells(h, n)) = h.tree.max_node_size + 1
                    /\ size(h, n) = h.tree.max_node_size + 1
                    /\ h.nodes[n].isLeaf = isLeaf
                 \/ LET s == split(h, n) IN SplitsA(s.h, s.r, isLeaf)
            [] c = MERGE_RIGHT_INTO_NODE ->
                 LET m == merge(h, h.nodes[n].rightSibling, n) IN SplitsA(m.h, m.r, isLeaf)
            [] c = MERGE_NODE_INTO_LEFT ->
                 LET m == merge(h, n, h.nodes[n].leftSibling) IN SplitsA(m.h, m.r, isLeaf)
            [] OTHER -> FALSE

FindLeaf ==
  Returned =>
    \A k \in AllKeys :
      LET leaf == searchForLeafNode(heap, k)
      IN IF heap.tree.root_node = Null THEN leaf = Null
         ELSE /\ leaf # Null
              /\ heap.nodes[leaf].isLeaf
              /\ stored[k] > 0 =>
                   \E i \in 1..Len(Cells(heap, leaf)) : KeyOf(heap, Cells(heap, leaf)[i]) = k

\* how many list nodes of the leaves hold each key
LeafKeyCount(h) ==
  [k \in AllKeys |->
     Cardinality({ ln \in UNION { { Cells(h, x[1])[i] : i \in 1..Len(Cells(h, x[1])) } :
                                  x \in Leaves(h) } : KeyOf(h, ln) = k })]

\* BB.distribute from source into target moves as few cells as the target needs
DistributeAsClaimed(h, source, target, source_is) ==
  LET d == distribute(h, source, target, source_is)
      half == h.tree.half_capacity
      moved == Len(Cells(d, target)) - Len(Cells(h, target))
  IN /\ d.err = ""
     /\ Len(Cells(d, target)) >= half /\ size(d, target) >= half
     /\ Len(Cells(d, source)) >= half /\ size(d, source) >= half
     /\ moved = half - Len(Cells(h, target))
     /\ LeafKeyCount(d) = LeafKeyCount(h)

\* every distribute of one put or delete, from balance(h, n) on, is as claimed
RECURSIVE DistributesAsClaimed(_, _)
DistributesAsClaimed(h, n) ==
  IF n = Null \/ h.err # "" THEN TRUE
  ELSE LET c == determineBalancingCase(h, n)
       IN CASE c = DISTRIBUTE_RIGHT_INTO_NODE ->
                 DistributeAsClaimed(h, h.nodes[n].rightSibling, n, RIGHT_SIBLING)
            [] c = DISTRIBUTE_LEFT_INTO_NODE ->
                 DistributeAsClaimed(h, h.nodes[n].leftSibling, n, LEFT_SIBLING)
            [] c = SPLIT ->
                 LET s == split(h, n) IN DistributesAsClaimed(s.h, s.r)
            [] c = MERGE_RIGHT_INTO_NODE ->
                 LET m == merge(h, h.nodes[n].rightSibling, n) IN DistributesAsClaimed(m.h, m.r)
            [] c = MERGE_NODE_INTO_LEFT ->
                 LET m == merge(h, n, h.nodes[n].leftSibling) IN DistributesAsClaimed(m.h, m.r)
            [] OTHER -> TRUE

\* C28: a distribute step moves from the donor sibling only as many cells as
\* the underfull target needs to reach half_capacity: afterwards target and
\* donor hold at least half_capacity cells, no more cells than necessary have
\* moved, and the multiset of keys stored in the leaves is unchanged.
DistributeMinimal ==
  (Returned /\ DistinctKeys) =>
    /\ \A k \in AllKeys, v \in Vals :
         CanPut(k, v) =>
           DistributesAsClaimed(InsertBeforeBalance(heap, k, v).h, InsertBeforeBalance(heap, k, v).node)
    /\ \A k \in AllKeys :
         CanDelete(k) =>
           DistributesAsClaimed(DeleteBeforeBalance(heap, k).h, DeleteBeforeBalance(heap, k).node)

\* C29: after every put and delete, every separator key of an interior node
\* equals the largest key stored in the leaf subtree immediately to its left.
SeparatorIsLeftMax ==
  Returned =>
    \A x \in TreeNodes(heap) :
      ~heap.nodes[x[1]].isLeaf =>
        LET c == ListNodes(heap, heap.nodes[x[1]].cellsList)
            right(i) == heap.cells[heap.lnodes[c[i]].key].right_child_node
            left(i) == IF i = 1 THEN heap.nodes[x[1]].left_most_child ELSE right(i - 1)
        IN \A i \in 1..Len(c) :
             /\ KeyOf(heap, c[i]) \in SubtreeKeys(heap, left(i))
             /\ \A k \in SubtreeKeys(heap, left(i)) : k <= KeyOf(heap, c[i])

\* C30: on a tree built with an even max_node_size >= 4 no sequence of put
\* and delete calls, with or without repeated keys, makes a call raise.
NoCallRaises ==
  (heap.tree.max_node_size >= 4 /\ heap.tree.max_node_size % 2 = 0) => heap.err = ""

\* the leaf reached from n by always following left_most_child
RECURSIVE DescendLeft(_, _)
DescendLeft(h, n) ==
  IF n = Null \/ h.nodes[n].isLeaf THEN n ELSE DescendLeft(h, h.nodes[n].left_most_child)

\* the leaf reached from n by always following the last cell's right child
RECURSIVE DescendRight(_, _)
DescendRight(h, n) ==
  IF n = Null \/ h.nodes[n].isLeaf THEN n
  ELSE IF Cells(h, n) = << >> THEN Null
  ELSE DescendRight(h, h.cells[h.lnodes[Cells(h, n)[Len(Cells(h, n))]].key].right_child_node)

\* C31: leftmost_leaf and rightmost_leaf are the two ends of the leaf chain of
\* the current tree: absent exactly when the root is absent, and otherwise
\* the leaf reached from the root by always following left_most_child and
\* the leaf reached by always following the last cell's right child.
LeafChainEnds ==
  Returned =>
    IF heap.tree.root_node = Null
      THEN heap.tree.left_most_node = Null /\ heap.tree.right_most_node = Null
      ELSE /\ heap.tree.left_most_node # Null
           /\ heap.tree.right_most_node # Null
           /\ heap.tree.left_most_node = DescendLeft(heap, heap.tree.root_node)
           /\ heap.tree.right_most_node = DescendRight(heap, heap.tree.root_node)

\* the list node LL.search is claimed to return on a list of distinct keys
ClaimedSearch(h, list, k, searchType) ==
  LET c == Walk(h, h.lists[list].min, Len(h.lnodes) + 1)
      ok(i) == CASE searchType = EqualsTo -> KeyOf(h, c[i]) = k
                 [] searchType = LesserThanOrEqualsTo -> KeyOf(h, c[i]) <= k
                 [] searchType = GreaterThanOrEqualsTo -> KeyOf(h, c[i]) >= k
                 [] searchType = LesserThan -> KeyOf(h, c[i]) < k
                 [] searchType = GreaterThan -> KeyOf(h, c[i]) > k
      hits == { i \in 1..Len(c) : ok(i) }
  IN IF hits = { } THEN Null
     ELSE IF searchType \in { GreaterThanOrEqualsTo, GreaterThan }
       THEN c[CHOOSE i \in hits : \A j \in hits : i <= j]
     ELSE c[CHOOSE i \in hits : \A j \in hits : j <= i]

SearchTypes ==
  { EqualsTo, LesserThanOrEqualsTo, GreaterThanOrEqualsTo, LesserThan, GreaterThan }

\* the search keys LL.search is checked with: around every key a list can hold
SearchKeys == 0..(FillKey + 1)

\* C32: LL.search on a sorted list of distinct keys returns, for any search
\* key, with EQ the node of that key, with LE the node of the greatest key
\* <= it, with GE the node of the smallest key >= it, with LT the node of the
\* greatest key < it, with GT the node of the smallest key > it, and nothing
\* when there is no such node.
ListSearch ==
  Returned =>
    \A x \in TreeNodes(heap) :
      LET l == heap.nodes[x[1]].cellsList
      IN WellFormedList(heap, l) =>
           \A k \in SearchKeys, t \in SearchTypes :
             LL_search(heap, l, k, t) = ClaimedSearch(heap, l, k, t)

\* a state with a well-formed leaf list of max_node_size keys
ListSearchWitness ==
  /\ Returned
  /\ \E x \in Leaves(heap) :
       /\ WellFormedList(heap, heap.nodes[x[1]].cellsList)
       /\ Len(Cells(heap, x[1])) = MaxNodeSize
       /\ \E k \in SearchKeys :
            /\ LL_search(heap, heap.nodes[x[1]].cellsList, k, LesserThan) # Null
            /\ LL_search(heap, heap.nodes[x[1]].cellsList, k, GreaterThan) # Null
            /\ LL_search(heap, heap.nodes[x[1]].cellsList, k, EqualsTo) # Null

\* a sequence without its i-th element
Without(c, i) == SubSeq(c, 1, i - 1) \o SubSeq(c, i + 1, Len(c))

\* the nodes of the list are linked from min in ascending key order
LinkedInOrder(h, list) ==
  LET c == Walk(h, h.lists[list].min, Len(h.lnodes) + 1)
  IN /\ Len(c) <= Len(h.lnodes)
     /\ \A i \in 1..(Len(c) - 1) : KeyOf(h, c[i]) < KeyOf(h, c[i + 1])
     /\ h.lists[list].max = IF c = << >> THEN Null ELSE c[Len(c)]
     /\ \A i \in 1..Len(c) :
          h.lnodes[c[i]].leftSibling = IF i = 1 THEN Null ELSE c[i - 1]

\* LL.deleteNode(list, key) does on h what is claimed of it
DeleteNodeAsClaimed(h, list, k) ==
  LET c == Walk(h, h.lists[list].min, Len(h.lnodes) + 1)
      at == { i \in 1..Len(c) : KeyOf(h, c[i]) = k }
      d == LL_deleteNode(h, list, k)
  IN IF at = { }
       THEN ~d.found /\ d.h = h
     ELSE LET i == CHOOSE j \in at : TRUE
          IN /\ d.found
             /\ d.key = h.lnodes[c[i]].key
             /\ d.duplicate_count = h.lnodes[c[i]].duplicate_count
             /\ d.h.lists[list].count =
                  h.lists[list].count - (1 + h.lnodes[c[i]].duplicate_count)
             /\ Walk(d.h, d.h.lists[list].min, Len(h.lnodes) + 1) = Without(c, i)
             /\ LinkedInOrder(d.h, list)

\* C33: LL.deleteNode of a key present in the list removes exactly that list
\* node, the remaining nodes staying linked in order with min and max at the
\* first and last of them, returns a copy carrying its duplicate_count and
\* decreases count by 1 + duplicate_count; for a key not in the list it
\* returns nothing and leaves the list unchanged.
ListDeleteNode ==
  Returned =>
    \A x \in Leaves(heap) :
      LinkedInOrder(heap, heap.nodes[x[1]].cellsList) =>
        \A k \in SearchKeys : DeleteNodeAsClaimed(heap, heap.nodes[x[1]].cellsList, k)

\* the same on the lists whose count is the number of their nodes
ListDeleteNodeCounted ==
  Returned =>
    \A x \in Leaves(heap) :
      WellFormedList(heap, heap.nodes[x[1]].cellsList) =>
        \A k \in SearchKeys : DeleteNodeAsClaimed(heap, heap.nodes[x[1]].cellsList, k)

\* every key of list a is below every key of list b
AllBelow(h, a, b) ==
  \A i \in 1..Len(WalkKeys(h, a)), j \in 1..Len(WalkKeys(h, b)) :
    WalkKeys(h, a)[i] < WalkKeys(h, b)[j]

\* list r of h1 is the concatenation of the lists a and b of h
Concatenated(h, a, b, h1, r) ==
  /\ Walk(h1, h1.lists[r].min, Len(h.lnodes) + 1) =
       Walk(h, h.lists[a].min, Len(h.lnodes) + 1) \o Walk(h, h.lists[b].min, Len(h.lnodes) + 1)
  /\ WellFormedList(h1, r)
  /\ h1.lists[r].count = h.lists[a].count + h.lists[b].count

\* both merges of the lists a and b of h do what is claimed of them
MergesAsClaimed(h, a, b) ==
  /\ Concatenated(h, a, b, LL_mergeSplittedRightIntoLeft(h, a, b), a)
  /\ Concatenated(h, a, b, LL_mergeSplittedLeftIntoRight(h, a, b), b)
  /\ h.lists[b].count = 0 => LL_mergeSplittedRightIntoLeft(h, a, b) = h
  /\ h.lists[a].count = 0 => LL_mergeSplittedLeftIntoRight(h, a, b) = h

\* h with two more lists, both empty
WithEmptyLists(h) == NewSortedLinkedList(NewSortedLinkedList(h))

\* the pairs of lists the merges are checked on: the cell lists of two
\* neighbouring leaves, each of them with an empty list on either side, and
\* two empty lists
MergePairs(h) ==
  LET e1 == Len(h.lists) + 1
      e2 == Len(h.lists) + 2
      ls == { h.nodes[x[1]].cellsList : x \in Leaves(h) }
  IN { << h.nodes[x[1]].cellsList, h.nodes[h.nodes[x[1]].rightSibling].cellsList >> :
         x \in { y \in Leaves(h) : h.nodes[y[1]].rightSibling # Null } }
     \cup { << e1, l >> : l \in ls } \cup { << l, e1 >> : l \in ls } \cup { << e1, e2 >> }

\* C34: for two well-formed lists a and b with every key of a below every key
\* of b, a or b possibly empty, mergeSplittedRightIntoLeft(a, b) and
\* mergeSplittedLeftIntoRight(a, b) return a list of a's nodes followed by
\* b's nodes, with min the first node, max the last node and count
\* a.count + b.count; merging an empty b (respectively an empty a) changes
\* nothing.
ListMerge ==
  Returned =>
    \A p \in MergePairs(heap) :
      ( /\ WellFormedList(WithEmptyLists(heap), p[1])
        /\ WellFormedList(WithEmptyLists(heap), p[2])
        /\ AllBelow(WithEmptyLists(heap), p[1], p[2]) )
      => MergesAsClaimed(WithEmptyLists(heap), p[1], p[2])

\* the same where neither list is empty
ListMergeNonEmpty ==
  Returned =>
    \A p \in MergePairs(heap) :
      ( /\ WellFormedList(WithEmptyLists(heap), p[1])
        /\ WellFormedList(WithEmptyLists(heap), p[2])
        /\ WithEmptyLists(heap).lists[p[1]].count > 0
        /\ WithEmptyLists(heap).lists[p[2]].count > 0
        /\ AllBelow(WithEmptyLists(heap), p[1], p[2]) )
      => MergesAsClaimed(WithEmptyLists(heap), p[1], p[2])

=============================================================================
